---- MODULE Spec2Model ----
(***************************************************************************)
(* Model of the combinator layer of markets: the conversion adapters       *)
(* (Specifier, Adapter; src/src/convert.rs), the keyed fan-out Distributor *)
(* and the ordered fan-in Collector (src/src/collections.rs) and the       *)
(* Composer (src/src/compose.rs) with the mock consumer and composite of   *)
(* src/tests/compose.rs; and of the queues and channels                    *)
(* (src/src/queue_crossbeam.rs, src/src/channel_std.rs,                    *)
(* src/src/channel_crossbeam.rs), the Reader and the Writer of bytes       *)
(* (src/src/io.rs) and the consumer of a process (src/src/process.rs).     *)
(*                                                                         *)
(* The combinators share no state.  A behaviour is a program that builds   *)
(* one top-level combinator, one queue or channel, one Reader or Writer,   *)
(* or one process, and then calls its operations; `agent` names what was   *)
(* built.                                                                  *)
(***************************************************************************)
EXTENDS Integers, Sequences, FiniteSets, TLC

VARIABLES
    agent,      \* which top-level combinator the program has constructed
    producers,  \* Distributor.producers: key -> <<>> (no entry) or <<specifier>>
    nextId,     \* identity given to the next sub-agent handed to insert/push
    retired,    \* the specifiers insert has handed back to the caller: id and key
    consumers,  \* Collector.consumers: sequence of adapters, in push order
    elements,   \* Composer.elements: the buffer kept across consume calls
    source,     \* the Composer's inner consumer: a MockConsumer's queue of results
    history,    \* what the Composer's inner consumer has yielded so far and what
                \* the Composite function has removed from the buffer so far
    stock,      \* the queue or channel the program has allocated or established:
                \* the goods it holds, which of its ends exist, and what it
                \* has accepted and delivered so far
    io,         \* the Reader or Writer the program has created: what the
                \* underlying reader or writer will answer, and the bytes it
                \* has handed over or taken so far
    process,    \* the spawned process seen by its ProductConsumer: the two
                \* pipes, the buffers of the two composers and the exit status
    call        \* record of the last operation: its inputs, sub-agent calls, result

vars ==
    <<agent, producers, nextId, retired, consumers, elements, source, history,
      stock, io, process, call>>

----------------------------------------------------------------------------
(* Bounds of the model *)

MaxKey == 2        \* keys are 1..MaxKey
MaxInserts == 2    \* producers handed to Distributor.insert
MaxPushes == 3     \* consumers handed to Collector.push
MaxStock == 1      \* results preloaded into a pushed mock consumer
MaxSource == 3     \* results preloaded into the mock consumer of a Composer
                   \* that runs beside the other combinators
MaxStream == 6     \* results preloaded into the mock consumer of the Composer
MaxPulls == 4      \* goods followed within one Composer::consume, and in its
                   \* buffer, when the inner consumer answers as it likes
MaxSize == 2       \* size of a finite queue or channel
MaxGoods == 3      \* goods handed to the produce of a queue or channel
MaxAnswers == 3    \* answers followed of an underlying reader or writer
MaxPipe == 4       \* answers followed of the two pipes of a process together

Keys == 1..MaxKey
Vals == {0, 1}
Tags == {"text", "number"}

----------------------------------------------------------------------------
(* Goods and their conversions *)

\* The generic good G of a Distributor / Collector: it exposes a key (Keyed).
Goods == [key : Keys, tag : Tags, val : Vals]

key(good) == good.key

\* A sub-agent's native good type: the tag it carries, and whether the native
\* form keeps the whole payload (exact) or only part of it.
Kinds == [tag : Tags, exact : BOOLEAN]

\* A faulty conversion: the error does not hand back the good as it was given.
TryFromLossyError(kind, good) ==
    IF good.tag = kind.tag
    THEN [ok |-> TRUE,
          good |-> <<kind.tag, good.key, IF kind.exact THEN good.val ELSE 0>>]
    ELSE [ok |-> FALSE, good |-> [good EXCEPT !.val = 0]]

\* P::Good::try_from(good): Ok(native good) when the generic good is of the
\* producer's tag, Err(the good itself) otherwise (TryFrom<G, Error = G>).
TryFrom(kind, good) ==
    IF good.tag = kind.tag
    THEN [ok |-> TRUE,
          good |-> <<kind.tag, good.key, IF kind.exact THEN good.val ELSE 0>>]
    ELSE [ok |-> FALSE, good |-> good]

\* G::from(native good): the infallible mapping back into the generic good.
From(native) == [key |-> native[2], tag |-> native[1], val |-> native[3]]

----------------------------------------------------------------------------
(* Faults, failures and recalls *)

Insufficiency(payload) == [class |-> "Insufficiency", payload |-> payload]
Defect(payload) == [class |-> "Defect", payload |-> payload]

is_defect(failure) == failure.fault.class = "Defect"

\* Agent::failure / Agent::recall: the fault with the description of the agent
\* that throws it; a recall also carries the rejected good.
Failure(who, fault) == [ok |-> FALSE, agent |-> who, fault |-> fault]
Recall(who, fault, good) ==
    [ok |-> FALSE, agent |-> who, fault |-> fault, good |-> good]

Produced == [ok |-> TRUE]
Consumed(good) == [ok |-> TRUE, good |-> good]

\* The conversions between flaw domains (the From bounds of each combinator).
\* A conversion into the same type is the identity; a conversion supplied for
\* a sub-agent's own fault type wraps the payload.
Same(payload) == payload
Widened(payload) == <<"Widened">> \o payload
Improducible(payload) == <<"Improducible">> \o payload
Specification(payload) == <<"Specification">> \o payload
ConsumeDefect(payload) == <<"Consume">> \o payload
ComposeDefect(payload) == <<"Compose">> \o payload
EmptyStock(payload) == <<"EmptyStock">>

\* Fault conversion of blame: an Insufficiency becomes the Insufficiency its
\* payload converts into, a Defect the Defect its payload converts into.
BlameFault(fault, insufficiency, defect) ==
    IF fault.class = "Insufficiency"
    THEN Insufficiency(insufficiency)
    ELSE Defect(defect)

----------------------------------------------------------------------------
(* Specifier (convert.rs) *)

SpecifierAgent(specifier) == [role |-> "Specifier", id |-> specifier.id]
ProducerAgent(specifier) == [role |-> "Producer", id |-> specifier.id]

\* Specifier::new(producer)
NewSpecifier(id, kind) == [id |-> id, kind |-> kind]

\* What the wrapped producer P answers to produce(native): it accepts the good
\* or throws its own Recall, which hands the native good back.
ProducerAnswers ==
    {[ok |-> TRUE, fault |-> Insufficiency(<<>>)],
     [ok |-> FALSE, fault |-> Insufficiency(<<"FullStock">>)],
     [ok |-> FALSE, fault |-> Defect(<<"WithdrawnDemand">>)]}

InnerProduce(specifier, native, answer) ==
    IF answer.ok
    THEN Produced
    ELSE Recall(ProducerAgent(specifier), answer.fault, native)

\* recall.blame() in Specifier::produce: Recall<P::Flaws, P::Good> into
\* Recall<SpecificationFlaws<F>, G>.
BlameSpecifier(recall) ==
    Recall(recall.agent,
           BlameFault(recall.fault,
               Widened(recall.fault.payload),
               Improducible(recall.fault.payload)),
           From(recall.good))

\* A faulty Specifier::produce: every recall of P is reported as a Defect.
SpecifierProduceAllDefect(specifier, good, answer) ==
    LET conv == TryFrom(specifier.kind, good)
        inner == InnerProduce(specifier, conv.good, answer)
    IN  IF conv.ok
        THEN [result |-> IF inner.ok THEN Produced
                         ELSE Recall(inner.agent,
                                     Defect(Improducible(inner.fault.payload)),
                                     From(inner.good)),
              invoked |-> << [producer |-> specifier.id, good |-> conv.good,
                              result |-> inner] >>]
        ELSE [result |-> Recall(SpecifierAgent(specifier),
                                Defect(<<"Unspecifiable">>), conv.good),
              invoked |-> <<>>]

\* A faulty Specifier::produce: an unspecifiable good is reported as an
\* Insufficiency.
SpecifierProduceRetryUnspecifiable(specifier, good, answer) ==
    LET conv == TryFrom(specifier.kind, good)
        inner == InnerProduce(specifier, conv.good, answer)
    IN  IF conv.ok
        THEN [result |-> IF inner.ok THEN Produced ELSE BlameSpecifier(inner),
              invoked |-> << [producer |-> specifier.id, good |-> conv.good,
                              result |-> inner] >>]
        ELSE [result |-> Recall(SpecifierAgent(specifier),
                                Insufficiency(<<"Unspecifiable">>), conv.good),
              invoked |-> <<>>]

\* A faulty Specifier::produce: the result of P is ignored.
SpecifierProduceSwallow(specifier, good, answer) ==
    LET conv == TryFrom(specifier.kind, good)
        inner == InnerProduce(specifier, conv.good, answer)
    IN  IF conv.ok
        THEN [result |-> Produced,
              invoked |-> << [producer |-> specifier.id, good |-> conv.good,
                              result |-> inner] >>]
        ELSE [result |-> Recall(SpecifierAgent(specifier),
                                Defect(<<"Unspecifiable">>), conv.good),
              invoked |-> <<>>]

\* Specifier::produce(good).  The value is the call's result and the calls it
\* made to the wrapped producer, each with the good passed and P's result.
SpecifierProduce(specifier, good, answer) ==
    LET conv == TryFrom(specifier.kind, good)
        inner == InnerProduce(specifier, conv.good, answer)
    IN  IF conv.ok
        THEN [result |-> IF inner.ok THEN Produced ELSE BlameSpecifier(inner),
              invoked |-> << [producer |-> specifier.id, good |-> conv.good,
                              result |-> inner] >>]
        ELSE [result |-> Recall(SpecifierAgent(specifier),
                                Defect(<<"Unspecifiable">>), conv.good),
              invoked |-> <<>>]

----------------------------------------------------------------------------
(* Distributor (collections.rs) *)

DistributorAgent == [role |-> "Distributor", id |-> 0]

\* A faulty From<SpecificationDefect<F>>: the defect becomes MissingKey.
BlameDistributorMissingKey(recall) ==
    Recall(recall.agent,
           BlameFault(recall.fault,
               Same(recall.fault.payload),
               <<"MissingKey">>),
           recall.good)

\* recall.blame() in Distributor::produce: Recall<SpecificationFlaws<F>, G>
\* into Recall<DistributionFlaws<F>, G>; the good and the Insufficiency keep
\* their type, the defect goes through From<SpecificationDefect<F>>.
BlameDistributor(recall) ==
    Recall(recall.agent, BlameFault(recall.fault,
               Same(recall.fault.payload),
               Specification(recall.fault.payload)), recall.good)

\* self.producers.get(good.key())
Get(map, k) == map[k]

\* A faulty Distributor::produce: a good without a producer is dropped.
DistributorProduceSilentMiss(map, good, answer) ==
    LET found == Get(map, key(good))
    IN  IF found # <<>>
        THEN LET sub == SpecifierProduce(found[1], good, answer)
             IN  [result |-> IF sub.result.ok THEN Produced
                             ELSE BlameDistributor(sub.result),
                  sub |-> <<sub.result>>,
                  invoked |-> sub.invoked]
        ELSE [result |-> Produced, sub |-> <<>>, invoked |-> <<>>]

\* A faulty Distributor::produce: a producer that cannot take the good's
\* form counts as no producer.
DistributorProduceUnfitAsMissing(map, good, answer) ==
    LET found == Get(map, key(good))
    IN  IF found # <<>> /\ TryFrom(found[1].kind, good).ok
        THEN LET sub == SpecifierProduce(found[1], good, answer)
             IN  [result |-> IF sub.result.ok THEN Produced
                             ELSE BlameDistributor(sub.result),
                  sub |-> <<sub.result>>,
                  invoked |-> sub.invoked]
        ELSE [result |-> Recall(DistributorAgent, Defect(<<"MissingKey">>), good),
              sub |-> <<>>,
              invoked |-> <<>>]

\* Distributor::produce(good)
DistributorProduce(map, good, answer) ==
    LET found == Get(map, key(good))
    IN  IF found # <<>>
        THEN LET sub == SpecifierProduce(found[1], good, answer)
             IN  [result |-> IF sub.result.ok THEN Produced
                             ELSE BlameDistributor(sub.result),
                  sub |-> <<sub.result>>,
                  invoked |-> sub.invoked]
        ELSE [result |-> Recall(DistributorAgent, Defect(<<"MissingKey">>), good),
              sub |-> <<>>,
              invoked |-> <<>>]

\* A faulty insert: an existing entry is kept (entry(key).or_insert).
MapInsertKeepOld(map, k, specifier) ==
    [map |-> IF map[k] = <<>> THEN [map EXCEPT ![k] = <<specifier>>] ELSE map,
     previous |-> map[k]]

\* HashMap::insert(key, Box::new(Specifier::new(producer))): the new map and
\* the entry it replaced.
MapInsert(map, k, specifier) ==
    [map |-> [map EXCEPT ![k] = <<specifier>>], previous |-> map[k]]

----------------------------------------------------------------------------
(* The mock consumer (tests/compose.rs) *)

ConsumerAgent(id) == [role |-> "Consumer", id |-> id]

MockDefect == <<"MockDefect">>

\* MockConsumer::consume: pop the front result of the queue; an empty queue
\* throws Insufficiency(EmptyStock::default()).
MockConsume(queue, who) ==
    IF queue # <<>>
    THEN [result |-> IF Head(queue).ok THEN Consumed(Head(queue).good)
                     ELSE Failure(who, Head(queue).fault),
          queue |-> Tail(queue)]
    ELSE [result |-> Failure(who, Insufficiency(<<"EmptyStock">>)),
          queue |-> <<>>]

Yield(good) == [ok |-> TRUE, good |-> good]
Throw(fault) == [ok |-> FALSE, fault |-> fault]

SeqsUpTo(S, n) == UNION {[1..m -> S] : m \in 0..n}

----------------------------------------------------------------------------
(* Adapter (convert.rs) *)

\* Adapter::new(consumer)
NewAdapter(id, queue) == [id |-> id, queue |-> queue]

\* failure.blame() in Adapter::consume: Failure<C::Flaws> into Failure<F>.
BlameAdapter(failure) ==
    Failure(failure.agent, BlameFault(failure.fault,
               Widened(failure.fault.payload),
               Widened(failure.fault.payload)))

\* A faulty Adapter::consume: a failing consumer is asked a second time.
AdapterConsumeRetry(adapter) ==
    LET first == MockConsume(adapter.queue, ConsumerAgent(adapter.id))
        inner == IF first.result.ok THEN first
                 ELSE MockConsume(first.queue, ConsumerAgent(adapter.id))
    IN  [result |-> IF inner.result.ok THEN Consumed(From(inner.result.good))
                    ELSE BlameAdapter(inner.result),
         inner |-> inner.result,
         adapter |-> [adapter EXCEPT !.queue = inner.queue]]

\* Adapter::consume(): the result, the wrapped consumer's own result and the
\* adapter with its consumer's queue advanced.
AdapterConsume(adapter) ==
    LET inner == MockConsume(adapter.queue, ConsumerAgent(adapter.id))
    IN  [result |-> IF inner.result.ok THEN Consumed(From(inner.result.good))
                    ELSE BlameAdapter(inner.result),
         inner |-> inner.result,
         adapter |-> [adapter EXCEPT !.queue = inner.queue]]

----------------------------------------------------------------------------
(* Collector (collections.rs) *)

CollectorAgent == [role |-> "Collector", id |-> 0]

\* failure.blame() in Collector::consume: Failure<F> into
\* Failure<ConsumptionFlaws<F::Defect>>; every Insufficiency becomes EmptyStock.
BlameCollector(failure) ==
    Failure(failure.agent, BlameFault(failure.fault,
               EmptyStock(failure.fault.payload),
               Same(failure.fault.payload)))

\* A faulty loop: no break on success.
RECURSIVE CollectorScanPastSuccess(_, _, _, _)
CollectorScanPastSuccess(list, i, result, invoked) ==
    IF i > Len(list)
    THEN [result |-> result, consumers |-> list, invoked |-> invoked]
    ELSE LET sub == AdapterConsume(list[i])
             next == IF sub.result.ok THEN sub.result
                     ELSE BlameCollector(sub.result)
             advanced == [list EXCEPT ![i] = sub.adapter]
             log == Append(invoked, [consumer |-> list[i].id,
                                     inner |-> sub.inner,
                                     result |-> sub.result])
         IN  IF ~next.ok /\ is_defect(next)
             THEN [result |-> next, consumers |-> advanced, invoked |-> log]
             ELSE CollectorScanPastSuccess(advanced, i + 1, next, log)

\* A faulty loop: no break on a Defect.
RECURSIVE CollectorScanPastDefect(_, _, _, _)
CollectorScanPastDefect(list, i, result, invoked) ==
    IF i > Len(list)
    THEN [result |-> result, consumers |-> list, invoked |-> invoked]
    ELSE LET sub == AdapterConsume(list[i])
             next == IF sub.result.ok THEN sub.result
                     ELSE BlameCollector(sub.result)
             advanced == [list EXCEPT ![i] = sub.adapter]
             log == Append(invoked, [consumer |-> list[i].id,
                                     inner |-> sub.inner,
                                     result |-> sub.result])
         IN  IF next.ok
             THEN [result |-> next, consumers |-> advanced, invoked |-> log]
             ELSE CollectorScanPastDefect(advanced, i + 1, next, log)

\* A faulty loop: break on every failure, also on an Insufficiency.
CollectorScanStopOnFailure(list, i, result, invoked) ==
    IF i > Len(list)
    THEN [result |-> result, consumers |-> list, invoked |-> invoked]
    ELSE LET sub == AdapterConsume(list[i])
             next == IF sub.result.ok THEN sub.result
                     ELSE BlameCollector(sub.result)
             advanced == [list EXCEPT ![i] = sub.adapter]
             log == Append(invoked, [consumer |-> list[i].id,
                                     inner |-> sub.inner,
                                     result |-> sub.result])
         IN  [result |-> next, consumers |-> advanced, invoked |-> log]

\* A faulty loop: a sub-consumer that reports a Defect is taken off the list.
RECURSIVE CollectorScanDropsDefective(_, _, _, _)
CollectorScanDropsDefective(list, i, result, invoked) ==
    IF i > Len(list)
    THEN [result |-> result, consumers |-> list, invoked |-> invoked]
    ELSE LET sub == AdapterConsume(list[i])
             next == IF sub.result.ok THEN sub.result
                     ELSE BlameCollector(sub.result)
             advanced == [list EXCEPT ![i] = sub.adapter]
             log == Append(invoked, [consumer |-> list[i].id,
                                     inner |-> sub.inner,
                                     result |-> sub.result])
         IN  IF next.ok
             THEN [result |-> next, consumers |-> advanced, invoked |-> log]
             ELSE IF is_defect(next)
             THEN [result |-> next,
                   consumers |-> SubSeq(list, 1, i - 1)
                                     \o SubSeq(list, i + 1, Len(list)),
                   invoked |-> log]
             ELSE CollectorScanDropsDefective(advanced, i + 1, next, log)

\* A faulty loop: after a success the remaining sub-consumers are still
\* consumed from, and what they give is dropped.
RECURSIVE CollectorScanDrainsAll(_, _, _, _)
CollectorScanDrainsAll(list, i, result, invoked) ==
    IF i > Len(list)
    THEN [result |-> result, consumers |-> list, invoked |-> invoked]
    ELSE LET sub == AdapterConsume(list[i])
             next == IF result.ok THEN result
                     ELSE IF sub.result.ok THEN sub.result
                     ELSE BlameCollector(sub.result)
             advanced == [list EXCEPT ![i] = sub.adapter]
             log == Append(invoked, [consumer |-> list[i].id,
                                     inner |-> sub.inner,
                                     result |-> sub.result])
         IN  IF ~next.ok /\ is_defect(next)
             THEN [result |-> next, consumers |-> advanced, invoked |-> log]
             ELSE CollectorScanDrainsAll(advanced, i + 1, next, log)

\* The for loop of Collector::consume from position i on: `result` is the
\* tentative outcome, `invoked` the sub-consumers called so far in this call.
RECURSIVE CollectorScan(_, _, _, _)
CollectorScan(list, i, result, invoked) ==
    IF i > Len(list)
    THEN [result |-> result, consumers |-> list, invoked |-> invoked]
    ELSE LET sub == AdapterConsume(list[i])
             next == IF sub.result.ok THEN sub.result
                     ELSE BlameCollector(sub.result)
             advanced == [list EXCEPT ![i] = sub.adapter]
             log == Append(invoked, [consumer |-> list[i].id,
                                     inner |-> sub.inner,
                                     result |-> sub.result])
         IN  IF next.ok
             THEN [result |-> next, consumers |-> advanced, invoked |-> log]
             ELSE IF is_defect(next)
             THEN [result |-> next, consumers |-> advanced, invoked |-> log]
             ELSE CollectorScan(advanced, i + 1, next, log)

\* Collector::consume()
CollectorConsume(list) ==
    CollectorScan(list, 1,
                  Failure(CollectorAgent, Insufficiency(<<"EmptyStock">>)), <<>>)

----------------------------------------------------------------------------
(* Composer (compose.rs) with MockComposite (tests/compose.rs) *)

ComposerAgent == [role |-> "Composer", id |-> 0]
SourceAgent == ConsumerAgent(0)

\* elements.drain(0..n)
Drain(buffer, n) == SubSeq(buffer, n + 1, Len(buffer))

Ready(buffer) == [poll |-> "Ready", elements |-> buffer]
Pending(buffer) == [poll |-> "Pending", elements |-> buffer]
Misstep(buffer) == [poll |-> "Misstep", elements |-> buffer]

\* A faulty compose: an invalid prefix is reported and left in the buffer.
composeKeepsInvalid(buffer) ==
    IF Len(buffer) < 1 THEN Pending(buffer)
    ELSE IF buffer[1] # 0 THEN Misstep(buffer)
    ELSE IF Len(buffer) < 2 THEN Pending(buffer)
    ELSE IF buffer[2] # 1 THEN Misstep(buffer)
    ELSE IF Len(buffer) < 3 THEN Pending(buffer)
    ELSE IF buffer[3] = 2 THEN Ready(Drain(buffer, 3))
    ELSE Misstep(buffer)

\* MockComposite::compose(elements): recognizes 0, 1, 2.
compose(buffer) ==
    IF Len(buffer) < 1 THEN Pending(buffer)
    ELSE IF buffer[1] # 0 THEN Misstep(Drain(buffer, 1))
    ELSE IF Len(buffer) < 2 THEN Pending(buffer)
    ELSE IF buffer[2] # 1 THEN Misstep(Drain(buffer, 2))
    ELSE IF Len(buffer) < 3 THEN Pending(buffer)
    ELSE IF buffer[3] = 2 THEN Ready(Drain(buffer, 3))
    ELSE Misstep(Drain(buffer, 3))

\* A faulty loop: one good is consumed per call.
PullOnce(buffer, queue, pulls) ==
    LET inner == MockConsume(queue, SourceAgent)
    IN  IF inner.result.ok
        THEN [elements |-> Append(buffer, inner.result.good),
              queue |-> inner.queue,
              failure |-> Failure(SourceAgent, Insufficiency(<<"EmptyStock">>)),
              pulls |-> pulls + 1]
        ELSE [elements |-> buffer, queue |-> inner.queue,
              failure |-> inner.result, pulls |-> pulls + 1]

\* A faulty loop: every good is put at the front of the buffer.
RECURSIVE PullPrepend(_, _, _)
PullPrepend(buffer, queue, pulls) ==
    LET inner == MockConsume(queue, SourceAgent)
    IN  IF inner.result.ok
        THEN PullPrepend(<<inner.result.good>> \o buffer, inner.queue, pulls + 1)
        ELSE [elements |-> buffer, queue |-> inner.queue,
              failure |-> inner.result, pulls |-> pulls + 1]

\* The loop of Composer::consume: consume until a failure, keeping every good.
RECURSIVE Pull(_, _, _)
Pull(buffer, queue, pulls) ==
    LET inner == MockConsume(queue, SourceAgent)
    IN  IF inner.result.ok
        THEN Pull(Append(buffer, inner.result.good), inner.queue, pulls + 1)
        ELSE [elements |-> buffer, queue |-> inner.queue,
              failure |-> inner.result, pulls |-> pulls + 1]

\* failure.blame() in Composer::consume: Failure<C::Flaws> into
\* Failure<CompositionFlaws<C::Flaws, G::Misstep>>.
BlameComposer(failure) ==
    Failure(failure.agent, BlameFault(failure.fault,
               Same(failure.fault.payload),
               ConsumeDefect(failure.fault.payload)))

\* A faulty Composer::consume: the buffer is not kept when compose is Pending.
ComposerConsumeForgets(buffer, queue) ==
    LET pulled == Pull(buffer, queue, 0)
        composed == compose(pulled.elements)
    IN  [result |-> IF composed.poll = "Misstep"
                    THEN Failure(ComposerAgent, Defect(ComposeDefect(<<"MockMisstep">>)))
                    ELSE IF composed.poll = "Ready"
                    THEN Consumed(<<"MockComposite">>)
                    ELSE BlameComposer(pulled.failure),
         buffered |-> pulled.elements,
         drained |-> SubSeq(pulled.elements, 1,
                            Len(pulled.elements) - Len(composed.elements)),
         elements |-> IF composed.poll = "Pending" THEN <<>> ELSE composed.elements,
         queue |-> pulled.queue,
         poll |-> composed.poll,
         failure |-> pulled.failure,
         pulls |-> pulled.pulls]

\* A faulty Composer::consume: a Defect of the inner consumer empties the
\* buffer.
ComposerConsumeResetOnDefect(buffer, queue) ==
    LET pulled == Pull(buffer, queue, 0)
        composed == compose(pulled.elements)
    IN  [result |-> IF composed.poll = "Misstep"
                    THEN Failure(ComposerAgent, Defect(ComposeDefect(<<"MockMisstep">>)))
                    ELSE IF composed.poll = "Ready"
                    THEN Consumed(<<"MockComposite">>)
                    ELSE BlameComposer(pulled.failure),
         buffered |-> pulled.elements,
         drained |-> SubSeq(pulled.elements, 1,
                            Len(pulled.elements) - Len(composed.elements)),
         elements |-> IF composed.poll = "Pending" /\ is_defect(pulled.failure)
                      THEN <<>> ELSE composed.elements,
         queue |-> pulled.queue,
         poll |-> composed.poll,
         failure |-> pulled.failure,
         pulls |-> pulled.pulls]

\* A faulty Composer::consume: the buffer is emptied when a composite is
\* returned.
ComposerConsumeClearsOnReady(buffer, queue) ==
    LET pulled == Pull(buffer, queue, 0)
        composed == compose(pulled.elements)
    IN  [result |-> IF composed.poll = "Misstep"
                    THEN Failure(ComposerAgent, Defect(ComposeDefect(<<"MockMisstep">>)))
                    ELSE IF composed.poll = "Ready"
                    THEN Consumed(<<"MockComposite">>)
                    ELSE BlameComposer(pulled.failure),
         buffered |-> pulled.elements,
         drained |-> SubSeq(pulled.elements, 1,
                            Len(pulled.elements) - Len(composed.elements)),
         elements |-> IF composed.poll = "Ready" THEN <<>> ELSE composed.elements,
         queue |-> pulled.queue,
         poll |-> composed.poll,
         failure |-> pulled.failure,
         pulls |-> pulled.pulls]

\* A faulty Composer::consume: whatever is not Ready throws the failure of the
\* inner consumer.
ComposerConsumeMisstepAsPending(buffer, queue) ==
    LET pulled == Pull(buffer, queue, 0)
        composed == compose(pulled.elements)
    IN  [result |-> IF composed.poll = "Ready"
                    THEN Consumed(<<"MockComposite">>)
                    ELSE BlameComposer(pulled.failure),
         buffered |-> pulled.elements,
         drained |-> SubSeq(pulled.elements, 1,
                            Len(pulled.elements) - Len(composed.elements)),
         elements |-> composed.elements,
         queue |-> pulled.queue,
         poll |-> composed.poll,
         failure |-> pulled.failure,
         pulls |-> pulled.pulls]

\* A faulty Composer::consume: a Defect of the inner consumer is thrown
\* before the buffer is composed.
ComposerConsumeDefectFirst(buffer, queue) ==
    LET pulled == Pull(buffer, queue, 0)
        composed == compose(pulled.elements)
    IN  [result |-> IF is_defect(pulled.failure)
                    THEN BlameComposer(pulled.failure)
                    ELSE IF composed.poll = "Misstep"
                    THEN Failure(ComposerAgent, Defect(ComposeDefect(<<"MockMisstep">>)))
                    ELSE IF composed.poll = "Ready"
                    THEN Consumed(<<"MockComposite">>)
                    ELSE BlameComposer(pulled.failure),
         buffered |-> pulled.elements,
         drained |-> SubSeq(pulled.elements, 1,
                            Len(pulled.elements) - Len(composed.elements)),
         elements |-> composed.elements,
         queue |-> pulled.queue,
         poll |-> composed.poll,
         failure |-> pulled.failure,
         pulls |-> pulled.pulls]

\* Composer::consume()
ComposerConsume(buffer, queue) ==
    LET pulled == Pull(buffer, queue, 0)
        composed == compose(pulled.elements)
    IN  [result |-> IF composed.poll = "Misstep"
                    THEN Failure(ComposerAgent, Defect(ComposeDefect(<<"MockMisstep">>)))
                    ELSE IF composed.poll = "Ready"
                    THEN Consumed(<<"MockComposite">>)
                    ELSE BlameComposer(pulled.failure),
         buffered |-> pulled.elements,
         drained |-> SubSeq(pulled.elements, 1,
                            Len(pulled.elements) - Len(composed.elements)),
         elements |-> composed.elements,
         queue |-> pulled.queue,
         poll |-> composed.poll,
         failure |-> pulled.failure,
         pulls |-> pulled.pulls]

----------------------------------------------------------------------------
(* Queues (queue_crossbeam.rs) and channels (channel_std.rs,                *)
(* channel_crossbeam.rs).  A queue or channel is a record: the goods it     *)
(* holds, oldest first, its size when it is finite, and for a channel       *)
(* whether its sender and its receiver still exist.                         *)

StockAgent == [role |-> "Stock", id |-> 0]

\* SegQueue::push(good)
SegPush(held, good) == [ok |-> TRUE, held |-> Append(held, good)]

\* ArrayQueue::push(good): Err(good) when the queue is full.
ArrayPush(held, size, good) ==
    IF Len(held) < size
    THEN [ok |-> TRUE, held |-> Append(held, good)]
    ELSE [ok |-> FALSE, held |-> held, good |-> good]

\* A faulty pop: the newest good is taken.
PopNewest(held) ==
    IF held = <<>> THEN [some |-> FALSE, held |-> held]
    ELSE [some |-> TRUE, good |-> held[Len(held)],
          held |-> SubSeq(held, 1, Len(held) - 1)]

\* SegQueue::pop() and ArrayQueue::pop(): the oldest good, None when empty.
Pop(held) ==
    IF held = <<>> THEN [some |-> FALSE, held |-> held]
    ELSE [some |-> TRUE, good |-> Head(held), held |-> Tail(held)]

\* Receiver::try_recv(): the oldest good; Empty when nothing is held and the
\* sender exists, Disconnected when nothing is held and the sender is gone.
TryRecv(chan) ==
    IF chan.held # <<>>
    THEN [ok |-> TRUE, good |-> Head(chan.held), held |-> Tail(chan.held)]
    ELSE [ok |-> FALSE, held |-> chan.held,
          error |-> IF chan.sender THEN "Empty" ELSE "Disconnected"]

\* Sender::send(good) on an unbounded channel: Err(good) when the receiver is
\* gone.
Send(chan, good) ==
    IF chan.receiver
    THEN [ok |-> TRUE, held |-> Append(chan.held, good)]
    ELSE [ok |-> FALSE, held |-> chan.held, error |-> "Disconnected", good |-> good]

\* SyncSender::try_send(good) and Sender::try_send(good) on a bounded channel:
\* Disconnected(good) when the receiver is gone, else Full(good) when size
\* goods are held.  No receiver ever waits in a blocking receive, so a channel
\* of size 0 never takes a good.
TrySend(chan, good) ==
    IF ~chan.receiver
    THEN [ok |-> FALSE, held |-> chan.held, error |-> "Disconnected", good |-> good]
    ELSE IF Len(chan.held) >= chan.size
    THEN [ok |-> FALSE, held |-> chan.held, error |-> "Full", good |-> good]
    ELSE [ok |-> TRUE, held |-> Append(chan.held, good)]

\* CrossbeamInfiniteQueue::consume()
CrossbeamInfiniteQueueConsume(queue) ==
    LET popped == Pop(queue.held)
    IN  [result |-> IF popped.some THEN Consumed(popped.good)
                    ELSE Failure(StockAgent, Insufficiency(<<"EmptyStock">>)),
         held |-> popped.held]

\* CrossbeamInfiniteQueue::produce(good)
CrossbeamInfiniteQueueProduce(queue, good) ==
    LET pushed == SegPush(queue.held, good)
    IN  [result |-> Produced, held |-> pushed.held]

\* CrossbeamFiniteQueue::consume()
CrossbeamFiniteQueueConsume(queue) ==
    LET popped == Pop(queue.held)
    IN  [result |-> IF popped.some THEN Consumed(popped.good)
                    ELSE Failure(StockAgent, Insufficiency(<<"EmptyStock">>)),
         held |-> popped.held]

\* CrossbeamFiniteQueue::produce(good)
CrossbeamFiniteQueueProduce(queue, good) ==
    LET pushed == ArrayPush(queue.held, queue.size, good)
    IN  [result |-> IF pushed.ok THEN Produced
                    ELSE Recall(StockAgent, Insufficiency(<<"FullStock">>),
                                pushed.good),
         held |-> pushed.held]

\* A faulty StdReceiver::consume: the arms of the match are exchanged.
StdReceiverConsumeExchanged(chan) ==
    LET received == TryRecv(chan)
    IN  [result |-> IF received.ok THEN Consumed(received.good)
                    ELSE IF received.error = "Empty"
                    THEN Failure(StockAgent, Defect(<<"WithdrawnSupply">>))
                    ELSE Failure(StockAgent, Insufficiency(<<"EmptyStock">>)),
         held |-> received.held]

\* StdReceiver::consume()
StdReceiverConsume(chan) ==
    LET received == TryRecv(chan)
    IN  [result |-> IF received.ok THEN Consumed(received.good)
                    ELSE IF received.error = "Empty"
                    THEN Failure(StockAgent, Insufficiency(<<"EmptyStock">>))
                    ELSE Failure(StockAgent, Defect(<<"WithdrawnSupply">>)),
         held |-> received.held]

\* StdSender::produce(good)
StdSenderProduce(chan, good) ==
    LET sent == Send(chan, good)
    IN  [result |-> IF sent.ok THEN Produced
                    ELSE Recall(StockAgent, Defect(<<"WithdrawnDemand">>),
                                sent.good),
         held |-> sent.held]

\* StdSyncSender::produce(good)
StdSyncSenderProduce(chan, good) ==
    LET sent == TrySend(chan, good)
    IN  [result |-> IF sent.ok THEN Produced
                    ELSE IF sent.error = "Full"
                    THEN Recall(StockAgent, Insufficiency(<<"FullStock">>),
                                sent.good)
                    ELSE Recall(StockAgent, Defect(<<"WithdrawnDemand">>),
                                sent.good),
         held |-> sent.held]

\* CrossbeamReceiver::consume()
CrossbeamReceiverConsume(chan) ==
    LET received == TryRecv(chan)
    IN  [result |-> IF received.ok THEN Consumed(received.good)
                    ELSE IF received.error = "Empty"
                    THEN Failure(StockAgent, Insufficiency(<<"EmptyStock">>))
                    ELSE Failure(StockAgent, Defect(<<"WithdrawnSupply">>)),
         held |-> received.held]

\* A faulty CrossbeamFiniteSender::produce: a full channel is reported as a
\* withdrawn demand and a withdrawn demand as a full channel.
CrossbeamFiniteSenderProduceExchanged(chan, good) ==
    LET sent == TrySend(chan, good)
    IN  [result |-> IF sent.ok THEN Produced
                    ELSE IF sent.error = "Full"
                    THEN Recall(StockAgent, Defect(<<"WithdrawnDemand">>),
                                sent.good)
                    ELSE Recall(StockAgent, Insufficiency(<<"FullStock">>),
                                sent.good),
         held |-> sent.held]

\* CrossbeamFiniteSender::produce(good)
CrossbeamFiniteSenderProduce(chan, good) ==
    LET sent == TrySend(chan, good)
    IN  [result |-> IF sent.ok THEN Produced
                    ELSE IF sent.error = "Full"
                    THEN Recall(StockAgent, Insufficiency(<<"FullStock">>),
                                sent.good)
                    ELSE Recall(StockAgent, Defect(<<"WithdrawnDemand">>),
                                sent.good),
         held |-> sent.held]

\* CrossbeamInfiniteSender::produce(good)
CrossbeamInfiniteSenderProduce(chan, good) ==
    LET sent == Send(chan, good)
    IN  [result |-> IF sent.ok THEN Produced
                    ELSE Recall(StockAgent, Defect(<<"WithdrawnDemand">>),
                                sent.good),
         held |-> sent.held]

\* The queues and channels that can be made.
Flavors == {"CrossbeamQueue", "StdChannel", "CrossbeamChannel"}

IsChannel(s) == s.flavor \in {"StdChannel", "CrossbeamChannel"}

\* produce of the producer that allocate or establish returned.
ProduceOn(s, good) ==
    IF s.flavor = "CrossbeamQueue"
    THEN IF s.finite THEN CrossbeamFiniteQueueProduce(s, good)
         ELSE CrossbeamInfiniteQueueProduce(s, good)
    ELSE IF s.flavor = "StdChannel"
    THEN IF s.finite THEN StdSyncSenderProduce(s, good)
         ELSE StdSenderProduce(s, good)
    ELSE IF s.finite THEN CrossbeamFiniteSenderProduce(s, good)
         ELSE CrossbeamInfiniteSenderProduce(s, good)

\* consume of the consumer that allocate or establish returned.
ConsumeOn(s) ==
    IF s.flavor = "CrossbeamQueue"
    THEN IF s.finite THEN CrossbeamFiniteQueueConsume(s)
         ELSE CrossbeamInfiniteQueueConsume(s)
    ELSE IF s.flavor = "StdChannel" THEN StdReceiverConsume(s)
    ELSE CrossbeamReceiverConsume(s)

----------------------------------------------------------------------------
(* State machine *)

Init ==
    /\ agent = "none"
    /\ producers = [k \in Keys |-> <<>>]
    /\ nextId = 1
    /\ retired = {}
    /\ consumers = <<>>
    /\ elements = <<>>
    /\ source = <<>>
    /\ history = [yielded |-> <<>>, drained |-> <<>>]
    /\ stock = [flavor |-> "none"]
    /\ io = [kind |-> "none"]
    /\ process = [state |-> "none"]
    /\ call = [op |-> "none"]

\* Distributor::new(name)
DistributorNew ==
    /\ agent = "none"
    /\ agent' = "Distributor"
    /\ producers' = [k \in Keys |-> <<>>]
    /\ call' = [op |-> "Distributor.new"]
    /\ UNCHANGED <<nextId, retired, consumers, elements, source, history, stock, io, process>>

\* Distributor::insert(key, producer)
Insert(k, kind) ==
    /\ agent = "Distributor"
    /\ nextId <= MaxInserts
    /\ LET done == MapInsert(producers, k, NewSpecifier(nextId, kind))
       IN  /\ producers' = done.map
           /\ retired' = retired \cup {[id |-> done.previous[i].id, key |-> k] :
                                         i \in DOMAIN done.previous}
           /\ call' = [op |-> "Distributor.insert", key |-> k, id |-> nextId,
                       returned |-> done.previous]
    /\ nextId' = nextId + 1
    /\ UNCHANGED <<agent, consumers, elements, source, history, stock, io, process>>

\* Distributor::produce(good); `answer` is what the sub-producer answers if
\* it is asked.
Produce(good, answer) ==
    /\ agent = "Distributor"
    /\ LET done == DistributorProduce(producers, good, answer)
       IN  call' = [op |-> "Distributor.produce", good |-> good,
                    result |-> done.result, sub |-> done.sub,
                    invoked |-> done.invoked]
    /\ UNCHANGED <<agent, producers, nextId, retired, consumers, elements, source, history, stock, io, process>>

\* Specifier::new(producer).produce(good) on a specifier of its own.
Specify(kind, good, answer) ==
    /\ agent \in {"none", "Specifier"}
    /\ agent' = "Specifier"
    /\ LET done == SpecifierProduce(NewSpecifier(0, kind), good, answer)
       IN  call' = [op |-> "Specifier.produce", good |-> good, kind |-> kind,
                    result |-> done.result, invoked |-> done.invoked]
    /\ UNCHANGED <<producers, nextId, retired, consumers, elements, source, history, stock, io, process>>

\* The results a mock consumer with identity id can be loaded with.
StockEntries(id) ==
    {Yield(<<"text", 1, id>>),
     Throw(Insufficiency(<<"EmptyStock">>)),
     Throw(Defect(MockDefect))}

\* Collector::new(name)
CollectorNew ==
    /\ agent = "none"
    /\ agent' = "Collector"
    /\ consumers' = <<>>
    /\ call' = [op |-> "Collector.new"]
    /\ UNCHANGED <<producers, nextId, retired, elements, source, history, stock, io, process>>

\* A faulty push: the consumer is put in front (Vec::insert(0, ..)).
PushFront(queue) ==
    /\ agent = "Collector"
    /\ nextId <= MaxPushes
    /\ consumers' = <<NewAdapter(nextId, queue)>> \o consumers
    /\ nextId' = nextId + 1
    /\ call' = [op |-> "Collector.push", id |-> nextId]
    /\ UNCHANGED <<agent, producers, retired, elements, source, history, stock, io, process>>

\* Collector::push(consumer)
Push(queue) ==
    /\ agent = "Collector"
    /\ nextId <= MaxPushes
    /\ consumers' = Append(consumers, NewAdapter(nextId, queue))
    /\ nextId' = nextId + 1
    /\ call' = [op |-> "Collector.push", id |-> nextId]
    /\ UNCHANGED <<agent, producers, retired, elements, source, history, stock, io, process>>

\* Collector::consume()
Consume ==
    /\ agent = "Collector"
    /\ LET done == CollectorConsume(consumers)
       IN  /\ consumers' = done.consumers
           /\ call' = [op |-> "Collector.consume", result |-> done.result,
                       invoked |-> done.invoked]
    /\ UNCHANGED <<agent, producers, nextId, retired, elements, source, history, stock, io, process>>

\* Adapter::new(consumer).consume() on an adapter of its own.
Adapt(queue) ==
    /\ agent \in {"none", "Adapter"}
    /\ agent' = "Adapter"
    /\ LET done == AdapterConsume(NewAdapter(0, queue))
       IN  call' = [op |-> "Adapter.consume", result |-> done.result,
                    inner |-> done.inner, queue |-> queue,
                    left |-> done.adapter.queue]
    /\ UNCHANGED <<producers, nextId, retired, consumers, elements, source, history, stock, io, process>>

\* The results the Composer's mock consumer can be loaded with.
SourceEntries ==
    {Yield(e) : e \in {0, 1, 2, 9}}
        \cup {Throw(Insufficiency(<<"EmptyStock">>)), Throw(Defect(MockDefect))}

\* Composer::new(consumer)
ComposerNew(queue) ==
    /\ agent = "none"
    /\ agent' = "Composer"
    /\ elements' = <<>>
    /\ source' = queue
    /\ history' = [yielded |-> <<>>, drained |-> <<>>]
    /\ call' = [op |-> "Composer.new"]
    /\ UNCHANGED <<producers, nextId, retired, consumers, stock, io, process>>

\* The goods among the first n results of a mock consumer's queue, in order.
RECURSIVE Yielded(_, _)
Yielded(queue, n) ==
    IF n = 0 THEN <<>>
    ELSE IF queue[1].ok THEN <<queue[1].good>> \o Yielded(Tail(queue), n - 1)
    ELSE Yielded(Tail(queue), n - 1)

\* A faulty consume: a Defect of the inner consumer met in a call that ends
\* Ready is kept and met again by the next call.
ComposerStepKeepsDefect ==
    /\ agent = "Composer"
    /\ LET done == ComposerConsume(elements, source)
       IN  /\ elements' = done.elements
           /\ source' = IF done.poll = "Ready" /\ is_defect(done.failure)
                        THEN <<Throw(done.failure.fault)>> \o done.queue
                        ELSE done.queue
           /\ history' =
                  [yielded |-> history.yielded
                                  \o Yielded(source, Len(source) - Len(done.queue)),
                   drained |-> history.drained \o done.drained]
           /\ call' = [op |-> "Composer.consume", result |-> done.result,
                       poll |-> done.poll, failure |-> done.failure,
                       pulls |-> done.pulls, buffered |-> done.buffered]
    /\ UNCHANGED <<agent, producers, nextId, retired, consumers, stock, io, process>>

\* Composer::consume()
ComposerStep ==
    /\ agent = "Composer"
    /\ LET done == ComposerConsume(elements, source)
       IN  /\ elements' = done.elements
           /\ source' = done.queue
           /\ history' =
                  [yielded |-> history.yielded
                                  \o Yielded(source, Len(source) - Len(done.queue)),
                   drained |-> history.drained \o done.drained]
           /\ call' = [op |-> "Composer.consume", result |-> done.result,
                       poll |-> done.poll, failure |-> done.failure,
                       pulls |-> done.pulls, buffered |-> done.buffered]
    /\ UNCHANGED <<agent, producers, nextId, retired, consumers, stock, io, process>>

\* Composer::consume one call of the inner consumer at a time, over an inner
\* consumer that answers each call as it likes.

\* Composer::new(consumer)
LoopNew ==
    /\ agent = "none"
    /\ agent' = "ComposerLoop"
    /\ elements' = <<>>
    /\ call' = [op |-> "Composer.new"]
    /\ UNCHANGED <<producers, nextId, retired, consumers, source, history, stock, io, process>>

\* A faulty borrow: no check that the buffer is already borrowed.
BorrowMutUnchecked(holders) == [ok |-> TRUE, holders |-> holders + 1]

\* self.elements.borrow_mut() on RefCell<Vec<E>>: granted when nobody holds
\* the buffer, a panic (BorrowMutError) otherwise.
BorrowMut(holders) ==
    [ok |-> holders = 0, holders |-> IF holders = 0 THEN 1 ELSE holders]

\* Composer::consume is entered: elements is borrowed, no good pulled yet.
LoopEnter ==
    /\ agent = "ComposerLoop"
    /\ call.op # "Composer.consume.loop"
    /\ LET borrow == BorrowMut(0)
       IN  call' = [op |-> "Composer.consume.loop", pulls |-> 0,
                    holders |-> borrow.holders, composed |-> 0]
    /\ UNCHANGED <<agent, producers, nextId, retired, consumers, elements,
                   source, history, stock, io, process>>

\* Composer::consume is entered again from within the inner consumer's
\* consume, while the first call holds the buffer: borrow_mut panics and the
\* panic unwinds through both calls, releasing the buffer.
LoopReenter ==
    /\ agent = "ComposerLoop"
    /\ call.op = "Composer.consume.loop"
    /\ LET borrow == BorrowMut(call.holders)
       IN  call' = IF borrow.ok
                   THEN [call EXCEPT !.holders = borrow.holders]
                   ELSE [op |-> "Composer.consume.panic", pulls |-> call.pulls]
    /\ UNCHANGED <<agent, producers, nextId, retired, consumers, elements,
                   source, history, stock, io, process>>

\* A faulty turn of the loop: the buffer is composed after every good.
LoopGoodComposes(good) ==
    /\ agent = "ComposerLoop"
    /\ call.op = "Composer.consume.loop"
    /\ call.pulls < MaxPulls
    /\ Len(elements) < MaxPulls
    /\ elements' = compose(Append(elements, good)).elements
    /\ call' = [call EXCEPT !.pulls = @ + 1, !.composed = @ + 1]
    /\ UNCHANGED <<agent, producers, nextId, retired, consumers, source, history, stock, io, process>>

\* One turn of the loop: the inner consumer yields a good, which is pushed.
\* The code limits neither the turns nor the buffer; both are followed up to
\* MaxPulls.
LoopGood(good) ==
    /\ agent = "ComposerLoop"
    /\ call.op = "Composer.consume.loop"
    /\ call.pulls < MaxPulls
    /\ Len(elements) < MaxPulls
    /\ elements' = Append(elements, good)
    /\ call' = [call EXCEPT !.pulls = @ + 1]
    /\ UNCHANGED <<agent, producers, nextId, retired, consumers, source, history, stock, io, process>>

\* The last turn of the loop: the inner consumer fails, the loop breaks, the
\* buffer is composed and the borrow ends with the call.
LoopFailure(fault) ==
    /\ agent = "ComposerLoop"
    /\ call.op = "Composer.consume.loop"
    /\ LET done == ComposerConsume(elements, <<Throw(fault)>>)
       IN  /\ elements' = done.elements
           /\ call' = [op |-> "Composer.consume", result |-> done.result,
                       poll |-> done.poll, failure |-> done.failure,
                       pulls |-> call.pulls + done.pulls,
                       buffered |-> done.buffered,
                       composed |-> call.composed + 1]
    /\ UNCHANGED <<agent, producers, nextId, retired, consumers, source, history, stock, io, process>>

LoopNext ==
    \/ LoopNew
    \/ LoopEnter
    \/ LoopReenter
    \/ \E good \in {0, 1, 2, 9} : LoopGood(good)
    \/ \E fault \in {Insufficiency(<<"EmptyStock">>), Defect(MockDefect)} :
           LoopFailure(fault)

\* InfiniteQueue::allocate(name), FiniteQueue::allocate(name, size),
\* InfiniteChannel::establish(name) and FiniteChannel::establish(name, size).
\* ArrayQueue::new panics on size 0; a channel of size 0 can be established.
Establish(flavor, finite, size) ==
    /\ agent = "none"
    /\ agent' = "Stock"
    /\ finite \/ size = 0
    /\ (flavor = "CrossbeamQueue" /\ finite) => size > 0
    /\ stock' = [flavor |-> flavor, finite |-> finite, size |-> size,
                 held |-> <<>>, sender |-> TRUE, receiver |-> TRUE,
                 accepted |-> <<>>, delivered |-> <<>>, made |-> 0]
    /\ call' = [op |-> "establish"]
    /\ UNCHANGED <<producers, nextId, retired, consumers, elements, source, history, io, process>>

\* produce(good) by any thread that has the producer; the goods are numbered
\* in the order they are handed over.
StockProduce ==
    /\ agent = "Stock"
    /\ stock.sender
    /\ stock.made < MaxGoods
    /\ LET good == stock.made + 1
           done == ProduceOn(stock, good)
       IN  /\ stock' = [stock EXCEPT
                            !.held = done.held,
                            !.made = good,
                            !.accepted = IF done.result.ok THEN Append(@, good)
                                         ELSE @]
           /\ call' = [op |-> "produce", good |-> good, result |-> done.result,
                       before |-> stock]
    /\ UNCHANGED <<agent, producers, nextId, retired, consumers, elements, source, history, io, process>>

\* consume() by any thread that has the consumer.
StockConsume ==
    /\ agent = "Stock"
    /\ stock.receiver
    /\ LET done == ConsumeOn(stock)
       IN  /\ stock' = [stock EXCEPT
                            !.held = done.held,
                            !.delivered = IF done.result.ok
                                          THEN Append(@, done.result.good)
                                          ELSE @]
           /\ call' = [op |-> "consume", result |-> done.result, before |-> stock]
    /\ UNCHANGED <<agent, producers, nextId, retired, consumers, elements, source, history, io, process>>

\* The sender of a channel is dropped.
DropSender ==
    /\ agent = "Stock"
    /\ IsChannel(stock)
    /\ stock.sender
    /\ stock' = [stock EXCEPT !.sender = FALSE]
    /\ call' = [op |-> "drop sender"]
    /\ UNCHANGED <<agent, producers, nextId, retired, consumers, elements, source, history, io, process>>

\* The receiver of a channel is dropped.  The library may free the goods the
\* channel holds at once or keep them until the sender is dropped too.
DropReceiver(freed) ==
    /\ agent = "Stock"
    /\ IsChannel(stock)
    /\ stock.receiver
    /\ stock' = [stock EXCEPT !.receiver = FALSE,
                              !.held = IF freed THEN <<>> ELSE @]
    /\ call' = [op |-> "drop receiver"]
    /\ UNCHANGED <<agent, producers, nextId, retired, consumers, elements, source, history, io, process>>

StockNext ==
    \/ \E flavor \in Flavors, finite \in BOOLEAN, size \in 0..MaxSize :
           Establish(flavor, finite, size)
    \/ StockProduce
    \/ StockConsume
    \/ DropSender
    \/ \E freed \in BOOLEAN : DropReceiver(freed)

----------------------------------------------------------------------------
(* Readers and writers of bytes (src/src/io.rs) *)

Bytes == {0, 1, 2}

\* What one call of std::io::Read::read or Write::write with a buffer of one
\* byte returns: Ok(1), Ok(0) or Err(error).  An Ok(1) of read has put a byte
\* in the buffer.  The underlying reader or writer belongs to the standard
\* library or to the caller; it is followed as the sequence of answers it
\* will give, and it answers Ok(0) once that sequence is used up.
OkRead(byte) == [kind |-> "Ok", n |-> 1, byte |-> byte]
OkWrite == [kind |-> "Ok", n |-> 1]
OkZero == [kind |-> "Ok", n |-> 0]
Err == [kind |-> "Err"]

ReadAnswers == {OkRead(byte) : byte \in Bytes} \cup {OkZero, Err}
WriteAnswers == {OkWrite, OkZero, Err}

\* std::process::ExitStatus of a child that has exited
ExitStatuses == {0, 1}

ReadDefect == <<"ReadDefect">>
WriteDefect == <<"WriteDefect">>

ReaderAgent == [role |-> "Reader", id |-> 0]
WriterAgent == [role |-> "Writer", id |-> 0]

\* self.reader.borrow_mut().read(&mut buffer) with buffer = [0; 1]: the
\* answer, and the underlying reader after it.  A byte that the answer puts in
\* the buffer has left the underlying reader.
read(r) ==
    IF r.answers = <<>>
    THEN [answer |-> OkZero, buffer |-> <<0>>, reader |-> r]
    ELSE LET answer == Head(r.answers)
             given == answer.kind = "Ok" /\ answer.n = 1
         IN  [answer |-> answer,
              buffer |-> IF given THEN <<answer.byte>> ELSE <<0>>,
              reader |-> [r EXCEPT !.answers = Tail(@),
                                   !.taken = IF given THEN Append(@, answer.byte)
                                             ELSE @]]

\* self.writer.borrow_mut().write(&[good]): the answer, and the underlying
\* writer after it.  An Ok(1) has put the byte in the underlying writer.
write(w, good) ==
    IF w.answers = <<>>
    THEN [answer |-> OkZero, writer |-> w]
    ELSE LET answer == Head(w.answers)
         IN  [answer |-> answer,
              writer |-> [w EXCEPT !.answers = Tail(@),
                                   !.written = IF answer.kind = "Ok" /\ answer.n = 1
                                               THEN Append(@, good) ELSE @]]

\* A faulty Reader::consume: the byte in the buffer is inspected in place of
\* the count that read returned.
ReaderConsumeTestsByte(r) ==
    LET done == read(r)
    IN  IF done.answer.kind = "Err"
        THEN [result |-> Failure(ReaderAgent, Defect(ReadDefect)),
              reader |-> done.reader]
        ELSE IF done.buffer[1] = 0
        THEN [result |-> Failure(ReaderAgent, Insufficiency(<<"EmptyStock">>)),
              reader |-> done.reader]
        ELSE [result |-> Consumed(done.buffer[1]), reader |-> done.reader]

\* Reader::consume
ReaderConsume(r) ==
    LET done == read(r)
    IN  IF done.answer.kind = "Err"
        THEN [result |-> Failure(ReaderAgent, Defect(ReadDefect)),
              reader |-> done.reader]
        ELSE IF done.answer.n = 0
        THEN [result |-> Failure(ReaderAgent, Insufficiency(<<"EmptyStock">>)),
              reader |-> done.reader]
        ELSE [result |-> Consumed(done.buffer[1]), reader |-> done.reader]

\* A faulty Writer::produce: the count that write returned is not inspected.
WriterProduceIgnoresCount(w, good) ==
    LET done == write(w, good)
    IN  IF done.answer.kind = "Err"
        THEN [result |-> Recall(WriterAgent, Defect(WriteDefect), good),
              writer |-> done.writer]
        ELSE [result |-> Produced, writer |-> done.writer]

\* Writer::produce
WriterProduce(w, good) ==
    LET done == write(w, good)
    IN  IF done.answer.kind = "Err"
        THEN [result |-> Recall(WriterAgent, Defect(WriteDefect), good),
              writer |-> done.writer]
        ELSE IF done.answer.n = 0
        THEN [result |-> Recall(WriterAgent, Insufficiency(<<"FullStock">>), good),
              writer |-> done.writer]
        ELSE [result |-> Produced, writer |-> done.writer]

\* Reader::new(name, reader)
ReaderNew(answers) ==
    /\ agent = "none"
    /\ agent' = "Reader"
    /\ io' = [kind |-> "Reader", answers |-> answers, taken |-> <<>>,
              returned |-> <<>>]
    /\ call' = [op |-> "Reader.new"]
    /\ UNCHANGED <<producers, nextId, retired, consumers, elements, source,
                   history, stock, process>>

\* Writer::new(name, writer)
WriterNew(answers) ==
    /\ agent = "none"
    /\ agent' = "Writer"
    /\ io' = [kind |-> "Writer", answers |-> answers, written |-> <<>>,
              accepted |-> <<>>]
    /\ call' = [op |-> "Writer.new"]
    /\ UNCHANGED <<producers, nextId, retired, consumers, elements, source,
                   history, stock, process>>

\* reader.consume(); `returned` collects the bytes the caller has received.
IoConsume ==
    /\ agent = "Reader"
    /\ LET done == ReaderConsume(io)
       IN  /\ io' = [done.reader EXCEPT
                        !.returned = IF done.result.ok
                                     THEN Append(@, done.result.good) ELSE @]
           /\ call' = [op |-> "Reader.consume", before |-> io,
                       result |-> done.result]
    /\ UNCHANGED <<agent, producers, nextId, retired, consumers, elements,
                   source, history, stock, process>>

\* writer.produce(good); `accepted` collects the bytes whose produce succeeded.
IoProduce(good) ==
    /\ agent = "Writer"
    /\ LET done == WriterProduce(io, good)
       IN  /\ io' = [done.writer EXCEPT
                        !.accepted = IF done.result.ok THEN Append(@, good) ELSE @]
           /\ call' = [op |-> "Writer.produce", good |-> good, before |-> io,
                       result |-> done.result]
    /\ UNCHANGED <<agent, producers, nextId, retired, consumers, elements,
                   source, history, stock, process>>

IoNext ==
    \/ agent = "none" /\ \E answers \in SeqsUpTo(ReadAnswers, MaxAnswers) :
           ReaderNew(answers)
    \/ agent = "none" /\ \E answers \in SeqsUpTo(WriteAnswers, MaxAnswers) :
           WriterNew(answers)
    \/ IoConsume
    \/ \E good \in Bytes : IoProduce(good)

----------------------------------------------------------------------------
(* Processes (src/src/process.rs).  The process is a record: the child with *)
(* its exit status, and the two composers of its ProductConsumer, each the  *)
(* buffer of the Composer and the Reader of the pipe.  The composite types  *)
(* O and E are parameters of the code; both are followed as the             *)
(* MockComposite.                                                           *)

ExiterAgent == [role |-> "Exiter", id |-> 0]
WaitDefect == <<"WaitDefect">>

\* Product::Output(output), Product::Error(error), Product::Exit(status)
ProductOutput(output) == [variant |-> "Output", value |-> output]
ProductError(error) == [variant |-> "Error", value |-> error]
ProductExit(status) == [variant |-> "Exit", value |-> status]

\* ProcessDefect::Output(defect), ProcessDefect::Error(defect),
\* ProcessDefect::Exit(defect)
ProcessDefectOutput(payload) == <<"Output">> \o payload
ProcessDefectError(payload) == <<"Error">> \o payload
ProcessDefectExit(payload) == <<"Exit">> \o payload

\* The loop of Composer::consume over a Reader: consume until a failure,
\* keeping every byte.
RECURSIVE PullReader(_, _)
PullReader(buffer, r) ==
    LET inner == ReaderConsume(r)
    IN  IF inner.result.ok
        THEN PullReader(Append(buffer, inner.result.good), inner.reader)
        ELSE [elements |-> buffer, reader |-> inner.reader,
              failure |-> inner.result]

\* Composer::consume of a Composer<u8, MockComposite, Reader<R>>
PipeComposerConsume(c) ==
    LET pulled == PullReader(c.elements, c.reader)
        composed == compose(pulled.elements)
    IN  [result |-> IF composed.poll = "Misstep"
                    THEN Failure(ComposerAgent, Defect(ComposeDefect(<<"MockMisstep">>)))
                    ELSE IF composed.poll = "Ready"
                    THEN Consumed(<<"MockComposite">>)
                    ELSE BlameComposer(pulled.failure),
         composer |-> [elements |-> composed.elements, reader |-> pulled.reader]]

\* self.child.borrow_mut().try_wait(): Err(error), Ok(None) while the child
\* runs, Ok(Some(status)) once it has exited.  Whether the call fails is the
\* operating system's choice.
try_wait(child, fails) ==
    IF fails THEN [kind |-> "Err"]
    ELSE IF child.state = "exited" THEN [kind |-> "Ok", status |-> <<child.status>>]
    ELSE [kind |-> "Ok", status |-> <<>>]

\* Exiter::consume
ExiterConsume(child, fails) ==
    LET waited == try_wait(child, fails)
    IN  IF waited.kind = "Err" THEN Failure(ExiterAgent, Defect(WaitDefect))
        ELSE IF waited.status = <<>>
        THEN Failure(ExiterAgent, Insufficiency(<<"EmptyStock">>))
        ELSE Consumed(waited.status[1])

\* failure.map_defect(ProcessDefect::Output)
MapDefectOutput(failure) ==
    Failure(failure.agent, Defect(ProcessDefectOutput(failure.fault.payload)))

\* failure.map_defect(ProcessDefect::Error)
MapDefectError(failure) ==
    Failure(failure.agent, Defect(ProcessDefectError(failure.fault.payload)))

\* failure.blame() in ProductConsumer::consume: Failure<ConsumptionFlaws<
\* WaitDefect>> into Failure<ProcessFlaws<O, E>>.
BlameProcess(failure) ==
    Failure(failure.agent, BlameFault(failure.fault,
               Same(failure.fault.payload),
               ProcessDefectExit(failure.fault.payload)))

\* A faulty ProductConsumer::consume: a Defect of the stdout composer is
\* passed over like an Insufficiency.
ProductConsumerConsumePassesDefect(p, fails) ==
    LET output == PipeComposerConsume(p.output_composer)
        error == PipeComposerConsume(p.error_composer)
        exit == ExiterConsume(p.child, fails)
        o == <<[stage |-> "Output", result |-> output.result]>>
        e == <<[stage |-> "Error", result |-> error.result]>>
        x == <<[stage |-> "Exit", result |-> exit]>>
        afterOutput == [p EXCEPT !.output_composer = output.composer]
        afterError == [afterOutput EXCEPT !.error_composer = error.composer]
    IN  IF output.result.ok
        THEN [result |-> Consumed(ProductOutput(output.result.good)),
              process |-> afterOutput, stages |-> o]
        ELSE IF error.result.ok
        THEN [result |-> Consumed(ProductError(error.result.good)),
              process |-> afterError, stages |-> o \o e]
        ELSE IF is_defect(error.result)
        THEN [result |-> MapDefectError(error.result),
              process |-> afterError, stages |-> o \o e]
        ELSE IF exit.ok
        THEN [result |-> Consumed(ProductExit(exit.good)),
              process |-> afterError, stages |-> o \o e \o x]
        ELSE [result |-> BlameProcess(exit),
              process |-> afterError, stages |-> o \o e \o x]

\* ProductConsumer::consume: the result, the process after the call, and the
\* consumers that were called with what each returned.
ProductConsumerConsume(p, fails) ==
    LET output == PipeComposerConsume(p.output_composer)
        error == PipeComposerConsume(p.error_composer)
        exit == ExiterConsume(p.child, fails)
        o == <<[stage |-> "Output", result |-> output.result]>>
        e == <<[stage |-> "Error", result |-> error.result]>>
        x == <<[stage |-> "Exit", result |-> exit]>>
        afterOutput == [p EXCEPT !.output_composer = output.composer]
        afterError == [afterOutput EXCEPT !.error_composer = error.composer]
    IN  IF output.result.ok
        THEN [result |-> Consumed(ProductOutput(output.result.good)),
              process |-> afterOutput, stages |-> o]
        ELSE IF is_defect(output.result)
        THEN [result |-> MapDefectOutput(output.result),
              process |-> afterOutput, stages |-> o]
        ELSE IF error.result.ok
        THEN [result |-> Consumed(ProductError(error.result.good)),
              process |-> afterError, stages |-> o \o e]
        ELSE IF is_defect(error.result)
        THEN [result |-> MapDefectError(error.result),
              process |-> afterError, stages |-> o \o e]
        ELSE IF exit.ok
        THEN [result |-> Consumed(ProductExit(exit.good)),
              process |-> afterError, stages |-> o \o e \o x]
        ELSE [result |-> BlameProcess(exit),
              process |-> afterError, stages |-> o \o e \o x]

\* Composer::new(Reader::new(pipe, name)) in spawn
NewPipeComposer(answers) ==
    [elements |-> <<>>, reader |-> [answers |-> answers, taken |-> <<>>]]

\* spawn(command, name): the child runs, and each pipe will answer the reads
\* as the child and the operating system decide.
Spawn(output, error) ==
    /\ agent = "none"
    /\ agent' = "Process"
    /\ process' = [child |-> [state |-> "running", status |-> 0],
                   output_composer |-> NewPipeComposer(output),
                   error_composer |-> NewPipeComposer(error)]
    /\ call' = [op |-> "spawn"]
    /\ UNCHANGED <<producers, nextId, retired, consumers, elements, source,
                   history, stock, io>>

\* The child exits with a status.
ChildExit(status) ==
    /\ agent = "Process"
    /\ process.child.state = "running"
    /\ process' = [process EXCEPT !.child = [state |-> "exited", status |-> status]]
    /\ call' = [op |-> "exit"]
    /\ UNCHANGED <<agent, producers, nextId, retired, consumers, elements,
                   source, history, stock, io>>

\* consumer.consume()
ProductConsume(fails) ==
    /\ agent = "Process"
    /\ LET done == ProductConsumerConsume(process, fails)
       IN  /\ process' = done.process
           /\ call' = [op |-> "ProductConsumer.consume", before |-> process,
                       fails |-> fails, stages |-> done.stages,
                       result |-> done.result]
    /\ UNCHANGED <<agent, producers, nextId, retired, consumers, elements,
                   source, history, stock, io>>

ProcessNext ==
    \/ agent = "none" /\ \E output \in SeqsUpTo(ReadAnswers, MaxPipe) :
           \E error \in SeqsUpTo(ReadAnswers, MaxPipe - Len(output)) :
               Spawn(output, error)
    \/ \E status \in ExitStatuses : ChildExit(status)
    \/ \E fails \in BOOLEAN : ProductConsume(fails)

DistributorNext ==
    \/ DistributorNew
    \/ \E k \in Keys, kind \in Kinds : Insert(k, kind)
    \/ \E good \in Goods, answer \in ProducerAnswers : Produce(good, answer)
    \/ \E kind \in Kinds, good \in Goods, answer \in ProducerAnswers :
           Specify(kind, good, answer)

CollectorNext ==
    \/ CollectorNew
    \/ \E queue \in SeqsUpTo(StockEntries(nextId), MaxStock) : Push(queue)
    \/ Consume
    \/ \E queue \in SeqsUpTo(StockEntries(0), MaxStock + 1) : Adapt(queue)

ComposerNext ==
    \/ agent = "none" /\ \E queue \in SeqsUpTo(SourceEntries, MaxStream) : ComposerNew(queue)
    \/ ComposerStep

ShortComposerNext ==
    \/ agent = "none" /\ \E queue \in SeqsUpTo(SourceEntries, MaxSource) : ComposerNew(queue)
    \/ ComposerStep

Next == DistributorNext

\* The producer side: Distributor and Specifier.
Spec == Init /\ [][Next]_vars

\* The consumer side: Collector and Adapter.
SpecCollector == Init /\ [][CollectorNext]_vars

\* The Composer over a mock consumer.
SpecComposer == Init /\ [][ComposerNext]_vars

\* The Composer's consume step by step, over any inner consumer.
SpecComposerLoop == Init /\ [][LoopNext]_vars

\* A queue or a channel with its producer and its consumer.
SpecStock == Init /\ [][StockNext]_vars

\* A Reader or a Writer over an underlying reader or writer.
SpecIo == Init /\ [][IoNext]_vars

\* A spawned process and its ProductConsumer.
SpecProcess == Init /\ [][ProcessNext]_vars

\* Every combinator.
SpecCombinators ==
    Init /\ [][DistributorNext \/ CollectorNext \/ ShortComposerNext]_vars

----------------------------------------------------------------------------
(* Properties of the producer side *)

\* The generic form of a native good, written out field by field.
Generic(native) == [key |-> native[2], tag |-> native[1], val |-> native[3]]

\* The native form a specifier of this kind gives the good.
Native(kind, good) == <<kind.tag, good.key, IF kind.exact THEN good.val ELSE 0>>

\* The Specifier::produce calls of the last operation: a call on a specifier of
\* its own, or the call Distributor::produce made on the registered specifier.
SpecifierCalls ==
    IF call.op = "Specifier.produce"
    THEN {[good |-> call.good, kind |-> call.kind, result |-> call.result,
           invoked |-> call.invoked]}
    ELSE IF call.op = "Distributor.produce" /\ call.sub # <<>>
    THEN {[good |-> call.good, kind |-> producers[call.good.key][1].kind,
           result |-> call.sub[1], invoked |-> call.invoked]}
    ELSE {}

FailedProduce ==
    /\ call.op \in {"Specifier.produce", "Distributor.produce"}
    /\ ~call.result.ok

\* C1: a failing Specifier.produce or Distributor.produce returns a Recall that
\* carries a good: the good passed in, unchanged, when the failure is
\* Unspecifiable or MissingKey, and otherwise the generic form of the good the
\* inner producer handed back in its own Recall.
C1_NoLoss ==
    FailedProduce =>
        /\ "good" \in DOMAIN call.result
        /\ IF call.result.fault.payload \in
                {<<"Unspecifiable">>, <<"Specification", "Unspecifiable">>,
                 <<"MissingKey">>}
           THEN call.result.good = call.good
           ELSE /\ Len(call.invoked) = 1
                /\ ~call.invoked[1].result.ok
                /\ call.result.good = Generic(call.invoked[1].result.good)

\* C1 witness: a Distributor.produce failed on the inner producer's Recall and
\* hands back the converted good, which differs from the good passed in.
C1_Witness ==
    /\ FailedProduce
    /\ call.op = "Distributor.produce"
    /\ Len(call.invoked) = 1
    /\ call.result.good = Generic(call.invoked[1].result.good)
    /\ call.result.good # call.good

\* C6: Distributor.produce of a good whose key has no registered producer
\* fails with Recall{Defect(MissingKey), the original good} and invokes no
\* sub-producer.
C6_MissingKey ==
    (call.op = "Distributor.produce" /\ producers[call.good.key] = <<>>) =>
        /\ ~call.result.ok
        /\ call.result.fault = [class |-> "Defect", payload |-> <<"MissingKey">>]
        /\ call.result.good = call.good
        /\ call.sub = <<>>
        /\ call.invoked = <<>>

\* C6 witness: a good was produced for a key without a producer while another
\* key has one.
C6_Witness ==
    /\ call.op = "Distributor.produce"
    /\ producers[call.good.key] = <<>>
    /\ \E k \in Keys : producers[k] # <<>>
    /\ ~call.result.ok

\* C7: Distributor.produce of a good whose key k has a registered producer
\* delegates to that producer and no other; it succeeds iff that producer
\* accepts the good, and otherwise returns that producer's Recall widened into
\* the Distributor's flaw domain: a Specification defect or the Insufficiency,
\* never MissingKey.
C7_Routing ==
    (call.op = "Distributor.produce" /\ producers[call.good.key] # <<>>) =>
        LET registered == producers[call.good.key][1]
            fits == call.good.tag = registered.kind.tag
        IN  /\ Len(call.sub) = 1
            /\ Len(call.invoked) = IF fits THEN 1 ELSE 0
            /\ \A i \in DOMAIN call.invoked :
                   /\ call.invoked[i].producer = registered.id
                   /\ call.invoked[i].good = Native(registered.kind, call.good)
            /\ call.result.ok <=> (fits /\ call.invoked[1].result.ok)
            /\ ~call.result.ok =>
                   /\ ~call.sub[1].ok
                   /\ call.result.good = call.sub[1].good
                   /\ call.result.agent = call.sub[1].agent
                   /\ call.result.fault.class = call.sub[1].fault.class
                   /\ call.result.fault.payload # <<"MissingKey">>
                   /\ call.result.fault.payload =
                          IF call.sub[1].fault.class = "Defect"
                          THEN <<"Specification">> \o call.sub[1].fault.payload
                          ELSE call.sub[1].fault.payload

\* C7 witness: both keys have a producer, and a good was delegated to the
\* producer of its key, which recalled it with a Defect.
C7_Witness ==
    /\ call.op = "Distributor.produce"
    /\ \A k \in {1, 2} : producers[k] # <<>>
    /\ Len(call.invoked) = 1
    /\ ~call.result.ok
    /\ call.result.fault.payload =
           <<"Specification", "Improducible", "WithdrawnDemand">>

RegisteredIds == {producers[k][1].id : k \in {j \in Keys : producers[j] # <<>>}}

\* C8: insert(key, producer) returns the producer registered under key before
\* (or nothing), leaves every other key's registration as it was, and every
\* later produce of a good with that key goes to the inserted producer and
\* never to a replaced one.
C8_Insert ==
    [][/\ call'.op = "Distributor.insert" =>
              /\ call'.returned = producers[call'.key]
              /\ \A k \in Keys \ {call'.key} : producers'[k] = producers[k]
              /\ producers'[call'.key] # <<>>
              /\ producers'[call'.key][1].id = call'.id
              /\ call'.id \notin RegisteredIds \cup {r.id : r \in retired}
       /\ call'.op = "Distributor.produce" =>
              \A i \in DOMAIN call'.invoked :
                  /\ call'.invoked[i].producer \notin {r.id : r \in retired'}
                  /\ producers'[call'.good.key] # <<>>
                  /\ call'.invoked[i].producer = producers'[call'.good.key][1].id
      ]_vars

\* C8 witness: a good went to the producer of a key whose earlier producer
\* insert had replaced and handed back.
C8_Witness ==
    /\ call.op = "Distributor.produce"
    /\ Len(call.invoked) = 1
    /\ \E r \in retired : r.key = call.good.key /\ r.id # call.invoked[1].producer

\* C9: when the conversion to the inner producer's native good fails,
\* Specifier.produce returns Recall{Defect(Unspecifiable), the original good}
\* and does not invoke the inner producer.
C9_Unspecifiable ==
    \A c \in SpecifierCalls :
        c.good.tag # c.kind.tag =>
            /\ ~c.result.ok
            /\ c.result.fault = [class |-> "Defect", payload |-> <<"Unspecifiable">>]
            /\ c.result.good = c.good
            /\ c.invoked = <<>>

\* C9 witness: a specifier was given a good of another tag than its producer's.
C9_Witness ==
    /\ call.op = "Specifier.produce"
    /\ call.good.tag # call.kind.tag
    /\ call.good.val = 1
    /\ ~call.result.ok

\* C10: a Specifier.produce call either succeeds, the inner producer having
\* accepted the converted good exactly once, or returns a Recall carrying the
\* good; it never succeeds without the inner producer's acceptance and never
\* invokes the inner producer more than once.
C10_DeliveredOrRecalled ==
    \A c \in SpecifierCalls :
        /\ Len(c.invoked) <= 1
        /\ c.result.ok =>
               /\ Len(c.invoked) = 1
               /\ c.invoked[1].result.ok
               /\ c.invoked[1].good = Native(c.kind, c.good)
        /\ ~c.result.ok =>
               /\ "good" \in DOMAIN c.result
               /\ \A i \in DOMAIN c.invoked : ~c.invoked[i].result.ok
               /\ \/ c.result.good = c.good
                  \/ /\ Len(c.invoked) = 1
                     /\ c.result.good = Generic(c.invoked[1].result.good)

\* C10 witness: a specifier's produce succeeded with one accepted call of the
\* inner producer.
C10_Witness ==
    /\ call.op = "Specifier.produce"
    /\ call.result.ok
    /\ Len(call.invoked) = 1
    /\ call.invoked[1].result.ok

----------------------------------------------------------------------------
(* Properties of the consumer side *)

\* What a sub-consumer will answer to its next consume, read off its queue.
Answer(adapter) ==
    IF adapter.queue = <<>> THEN "Insufficiency"
    ELSE IF adapter.queue[1].ok THEN "Good"
    ELSE adapter.queue[1].fault.class

\* The first position in push order whose sub-consumer will not answer with an
\* Insufficiency; 0 when there is none.
FirstDecisive(list) ==
    LET decisive == {i \in 1..Len(list) : Answer(list[i]) # "Insufficiency"}
    IN  IF decisive = {} THEN 0
        ELSE CHOOSE i \in decisive : \A j \in decisive : i <= j

\* The sub-consumers called are the first ones in push order, each once.
InPushOrder(invoked, list) ==
    /\ Len(invoked) <= Len(list)
    /\ \A i \in DOMAIN invoked : invoked[i].consumer = list[i].id

\* The sub-consumers behind position n are as they were before the call.
Untouched(n) ==
    /\ Len(consumers') = Len(consumers)
    /\ \A i \in (n + 1)..Len(consumers) : consumers'[i] = consumers[i]

\* C3: Collector.consume invokes its sub-consumers in push order and stops at
\* the first that succeeds: it returns that sub-consumer's good, and no
\* sub-consumer pushed after it is invoked in that call.
C3_FirstSuccess ==
    [][call'.op = "Collector.consume" =>
          LET first == FirstDecisive(consumers)
          IN  /\ InPushOrder(call'.invoked, consumers)
              /\ call'.result.ok <=>
                     (first # 0 /\ Answer(consumers[first]) = "Good")
              /\ call'.result.ok =>
                     /\ call'.result.good = Generic(consumers[first].queue[1].good)
                     /\ Len(call'.invoked) = first
                     /\ \A i \in 1..(first - 1) :
                            /\ ~call'.invoked[i].result.ok
                            /\ call'.invoked[i].result.fault.class = "Insufficiency"
                     /\ consumers'[first].queue = Tail(consumers[first].queue)
                     /\ Untouched(first)
      ]_vars

\* C3 witness: of three sub-consumers the first answered Insufficiency, the
\* second gave its good, and the third still holds the good it was loaded with.
C3_Witness ==
    /\ call.op = "Collector.consume"
    /\ Len(consumers) = 3
    /\ call.result.ok
    /\ Len(call.invoked) = 2
    /\ call.invoked[1].result.fault.class = "Insufficiency"
    /\ call.result.good.val = consumers[2].id
    /\ Answer(consumers[3]) = "Good"

\* C4: Collector.consume stops at the first sub-consumer that fails with a
\* Defect: it returns that Defect, no later sub-consumer is invoked in that
\* call, and a good in a later sub-consumer does not mask the Defect.
C4_FirstDefect ==
    [][call'.op = "Collector.consume" =>
          LET first == FirstDecisive(consumers)
              defect == first # 0 /\ Answer(consumers[first]) = "Defect"
          IN  /\ (~call'.result.ok /\ call'.result.fault.class = "Defect") <=> defect
              /\ defect =>
                     /\ call'.result.agent = ConsumerAgent(consumers[first].id)
                     /\ call'.result.fault.payload =
                            <<"Widened">> \o consumers[first].queue[1].fault.payload
                     /\ Len(call'.invoked) = first
                     /\ InPushOrder(call'.invoked, consumers)
                     /\ Untouched(first)
      ]_vars

\* C4 witness: the first sub-consumer failed with a Defect while the second
\* holds a good, which is still there after the call.
C4_Witness ==
    /\ call.op = "Collector.consume"
    /\ Len(consumers) >= 2
    /\ ~call.result.ok
    /\ call.result.fault.class = "Defect"
    /\ Len(call.invoked) = 1
    /\ Answer(consumers[2]) = "Good"

\* C5: when every sub-consumer fails with Insufficiency, each is invoked
\* exactly once in push order and the call returns the Insufficiency of the
\* last one; a Collector without sub-consumers returns its own default
\* EmptyStock Insufficiency.  No Defect and no good is returned.
C5_AllInsufficient ==
    [][(call'.op = "Collector.consume" /\ FirstDecisive(consumers) = 0) =>
          /\ Len(call'.invoked) = Len(consumers)
          /\ InPushOrder(call'.invoked, consumers)
          /\ \A i \in DOMAIN call'.invoked :
                 /\ ~call'.invoked[i].result.ok
                 /\ call'.invoked[i].result.fault.class = "Insufficiency"
          /\ ~call'.result.ok
          /\ call'.result.fault =
                 [class |-> "Insufficiency", payload |-> <<"EmptyStock">>]
          /\ call'.result.agent =
                 IF consumers = <<>> THEN CollectorAgent
                 ELSE ConsumerAgent(consumers[Len(consumers)].id)
          /\ Len(consumers') = Len(consumers)
          /\ \A i \in DOMAIN consumers :
                 /\ consumers'[i].id = consumers[i].id
                 /\ consumers'[i].queue =
                        IF consumers[i].queue = <<>> THEN <<>>
                        ELSE Tail(consumers[i].queue)
      ]_vars

\* C5 witness: three sub-consumers all failed with Insufficiency, the first
\* from a loaded result and the last from an empty queue, and the call
\* returned the last one's Insufficiency.
C5_Witness ==
    /\ call.op = "Collector.consume"
    /\ Len(consumers) = 3
    /\ Len(call.invoked) = 3
    /\ ~call.result.ok
    /\ call.result.fault.class = "Insufficiency"
    /\ call.result.agent = ConsumerAgent(consumers[3].id)

----------------------------------------------------------------------------
(* Properties of every combinator *)

SameClass(outer, inner) ==
    /\ ~outer.ok
    /\ ~inner.ok
    /\ outer.fault.class = inner.fault.class
    /\ outer.fault.class \in {"Insufficiency", "Defect"}

\* C2: whenever a combinator passes a sub-agent's failure on to its caller,
\* the caller sees an Insufficiency iff the sub-agent reported one and a
\* Defect iff the sub-agent reported one.
C2_ClassificationPreserved ==
    /\ call.op \in {"Specifier.produce", "Distributor.produce"} =>
           \A i \in DOMAIN call.invoked :
               ~call.invoked[i].result.ok =>
                   SameClass(call.result, call.invoked[i].result)
    /\ call.op = "Distributor.produce" =>
           \A i \in DOMAIN call.sub :
               ~call.sub[i].ok => SameClass(call.result, call.sub[i])
    /\ call.op = "Adapter.consume" =>
           (~call.inner.ok => SameClass(call.result, call.inner))
    /\ call.op = "Collector.consume" =>
           /\ \A i \in DOMAIN call.invoked :
                  ~call.invoked[i].inner.ok =>
                      SameClass(call.invoked[i].result, call.invoked[i].inner)
           /\ (~call.result.ok /\ call.invoked # <<>>) =>
                  /\ SameClass(call.result, call.invoked[Len(call.invoked)].inner)
                  /\ SameClass(call.result, call.invoked[Len(call.invoked)].result)
    /\ call.op = "Composer.consume" =>
           (call.poll = "Pending" => SameClass(call.result, call.failure))

\* C2 witness: a Collector returned the Defect of its second sub-consumer,
\* passed through the Adapter and the Collector.
C2_Witness ==
    /\ call.op = "Collector.consume"
    /\ Len(call.invoked) = 2
    /\ ~call.invoked[2].inner.ok
    /\ call.invoked[2].inner.fault.class = "Defect"
    /\ call.invoked[2].result.fault.class = "Defect"
    /\ ~call.result.ok
    /\ call.result.fault.class = "Defect"

----------------------------------------------------------------------------
(* Properties of the Adapter *)

\* C11: Adapter.consume takes exactly one result from the inner consumer; a
\* good is returned mapped into the generic good type, and a failure is
\* returned widened into the Adapter's flaws, under the inner consumer's name
\* and with the same Insufficiency/Defect class.
C11_AdapterConsume ==
    call.op = "Adapter.consume" =>
        /\ call.queue # <<>> => call.left = Tail(call.queue)
        /\ call.queue = <<>> => call.left = <<>>
        /\ (call.queue # <<>> /\ call.queue[1].ok) =>
               call.result = [ok |-> TRUE, good |-> Generic(call.queue[1].good)]
        /\ (call.queue # <<>> /\ ~call.queue[1].ok) =>
               call.result =
                   [ok |-> FALSE, agent |-> [role |-> "Consumer", id |-> 0],
                    fault |-> [class |-> call.queue[1].fault.class,
                               payload |-> <<"Widened">>
                                               \o call.queue[1].fault.payload]]
        /\ call.queue = <<>> =>
               call.result =
                   [ok |-> FALSE, agent |-> [role |-> "Consumer", id |-> 0],
                    fault |-> [class |-> "Insufficiency",
                               payload |-> <<"Widened", "EmptyStock">>]]

\* C11 witness: an Adapter whose consumer held a Defect followed by a good
\* returned the Defect and left the good in place.
C11_Witness ==
    /\ call.op = "Adapter.consume"
    /\ Len(call.queue) = 2
    /\ ~call.queue[1].ok
    /\ call.queue[1].fault.class = "Defect"
    /\ call.queue[2].ok
    /\ ~call.result.ok
    /\ call.result.fault.class = "Defect"
    /\ Len(call.left) = 1

----------------------------------------------------------------------------
(* Properties of the Composer *)

\* The number of goods the inner consumer yields before its next failure.
RECURSIVE RunLen(_)
RunLen(queue) ==
    IF queue = <<>> THEN 0
    ELSE IF queue[1].ok THEN 1 + RunLen(Tail(queue))
    ELSE 0

\* Those goods, in the order the inner consumer yields them.
Front(queue) == [i \in 1..RunLen(queue) |-> queue[i].good]

\* The class and the payload of the failure that follows them.
Terminal(queue) ==
    IF RunLen(queue) < Len(queue) THEN queue[RunLen(queue) + 1].fault
    ELSE [class |-> "Insufficiency", payload |-> <<"EmptyStock">>]

\* What the inner consumer is left with after yielding them and failing.
Rest(queue) == SubSeq(queue, RunLen(queue) + 2, Len(queue))

\* The elements of a valid composite.
Valid == <<0, 1, 2>>

StartsValid(buffer) == Len(buffer) >= 3 /\ SubSeq(buffer, 1, 3) = Valid

PartlyValid(buffer) == Len(buffer) < 3 /\ buffer = SubSeq(Valid, 1, Len(buffer))

TheComposite == [ok |-> TRUE, good |-> <<"MockComposite">>]

\* The inner consumer's failure as a caller of the Composer sees it.
Passed(fault) ==
    [ok |-> FALSE, agent |-> [role |-> "Consumer", id |-> 0],
     fault |-> [class |-> fault.class,
                payload |-> IF fault.class = "Defect"
                            THEN <<"Consume">> \o fault.payload
                            ELSE fault.payload]]

\* C12: when the buffer is empty and the inner consumer yields 0, 1, 2 and
\* then fails with Insufficiency, consume returns the composite and leaves the
\* buffer empty; a consume that follows a returned composite with the buffer
\* empty and nothing new from the inner consumer returns the inner consumer's
\* Insufficiency.
C12_CompleteThenInsufficient ==
    [][call'.op = "Composer.consume" =>
          /\ (/\ elements = <<>>
              /\ Front(source) = Valid
              /\ Terminal(source).class = "Insufficiency") =>
                 /\ call'.result = TheComposite
                 /\ elements' = <<>>
                 /\ source' = Rest(source)
          /\ (/\ call.op = "Composer.consume"
              /\ call.result = TheComposite
              /\ elements = <<>>
              /\ Front(source) = <<>>
              /\ Terminal(source).class = "Insufficiency") =>
                 /\ call'.result = Passed(Terminal(source))
                 /\ elements' = <<>>]_vars

\* C12 witness: the inner consumer yielded 0, 1, 2 in all, the composite made
\* of them was taken, and the latest consume got nothing from the inner
\* consumer and returned its Insufficiency.
C12_Witness ==
    /\ call.op = "Composer.consume"
    /\ history.yielded = Valid
    /\ history.drained = Valid
    /\ elements = <<>>
    /\ call.pulls = 1
    /\ call.buffered = <<>>
    /\ ~call.result.ok
    /\ call.result.fault = [class |-> "Insufficiency", payload |-> <<"EmptyStock">>]

\* C13: when the buffer with the goods the inner consumer yields before an
\* Insufficiency is only the beginning of a composite, consume returns that
\* Insufficiency and the buffer holds those elements, in order; when a later
\* consume finds the buffer and the new goods to make up 0, 1, 2, it returns
\* the composite built from the elements of both calls.
C13_PartialKept ==
    [][call'.op = "Composer.consume" =>
          /\ (/\ PartlyValid(elements \o Front(source))
              /\ Terminal(source).class = "Insufficiency") =>
                 /\ call'.result = Passed(Terminal(source))
                 /\ elements' = elements \o Front(source)
          /\ (/\ elements # <<>>
              /\ Front(source) # <<>>
              /\ elements \o Front(source) = Valid) =>
                 /\ call'.result = TheComposite
                 /\ elements' = <<>>]_vars

\* C13 witness: a consume returned the composite of 0, 1, 2 having found part
\* of it in the buffer and pulled the rest.
C13_Witness ==
    /\ call.op = "Composer.consume"
    /\ call.result = TheComposite
    /\ history.yielded = Valid
    /\ call.buffered = Valid
    /\ call.pulls \in {2, 3}
    /\ elements = <<>>

\* C14: whenever compose reports a Misstep, consume returns the Composer's own
\* Defect carrying that misstep, whether the inner consumer's failure was an
\* Insufficiency or a Defect.
C14_MisstepFirst ==
    (call.op = "Composer.consume" /\ call.poll = "Misstep") =>
        /\ call.failure.fault.class \in {"Insufficiency", "Defect"}
        /\ call.result =
               [ok |-> FALSE, agent |-> [role |-> "Composer", id |-> 0],
                fault |-> [class |-> "Defect",
                           payload |-> <<"Compose", "MockMisstep">>]]

\* C14 witness: compose reported a Misstep in a call whose inner consumer had
\* failed with an Insufficiency, and the Composer returned its own Defect.
C14_Witness ==
    /\ call.op = "Composer.consume"
    /\ call.poll = "Misstep"
    /\ call.failure.fault.class = "Insufficiency"
    /\ call.result.fault.class = "Defect"
    /\ call.result.agent.role = "Composer"

\* C15: when compose is Pending, consume returns the inner consumer's failure,
\* a Defect as the Composer's Defect wrapping it and an Insufficiency as it
\* is, and the buffer keeps its elements and the goods just pulled; a consume
\* that follows a Defect returned this way and finds 0, 1, 2 returns the
\* composite.
C15_PendingPassesFailure ==
    [][call'.op = "Composer.consume" =>
          /\ call'.poll = "Pending" =>
                 /\ call'.result = Passed(Terminal(source))
                 /\ call'.result.fault.class = call'.failure.fault.class
                 /\ elements' = elements \o Front(source)
          /\ (/\ call.op = "Composer.consume"
              /\ call.poll = "Pending"
              /\ call.result.fault.class = "Defect"
              /\ elements \o Front(source) = Valid) =>
                 call'.result = TheComposite]_vars

\* C15 witness: the inner consumer failed with a Defect after 0 and 1, the
\* Composer returned the Defect wrapped and kept 0 and 1, and the inner
\* consumer has 2 to give next.
C15_Witness ==
    /\ call.op = "Composer.consume"
    /\ call.poll = "Pending"
    /\ call.result.fault = [class |-> "Defect", payload |-> <<"Consume", "MockDefect">>]
    /\ elements = <<0, 1>>
    /\ source # <<>>
    /\ source[1] = [ok |-> TRUE, good |-> 2]

\* C16: when compose reports Ready, consume returns the composite and not the
\* failure that ended the pulling, whether that failure was an Insufficiency
\* or a Defect.
C16_ReadyDiscardsFailure ==
    (call.op = "Composer.consume" /\ call.poll = "Ready") =>
        /\ call.failure.fault.class \in {"Insufficiency", "Defect"}
        /\ call.result = TheComposite

\* C16 witness: the inner consumer failed with a Defect in a call that
\* completed a composite, and the call returned the composite.
C16_Witness ==
    /\ call.op = "Composer.consume"
    /\ call.poll = "Ready"
    /\ call.failure.fault = [class |-> "Defect", payload |-> <<"MockDefect">>]
    /\ call.result.ok

\* The elements compose removed in the latest consume.
Removed == Len(call.buffered) - Len(elements)

\* C17: a new Composer has an empty buffer, and at every point the elements
\* compose has removed followed by the buffer are the goods the inner consumer
\* has yielded, in order; the buffer compose was given in a consume is what
\* had been yielded and not yet removed.
C17_NothingLost ==
    /\ call.op = "Composer.new" =>
           elements = <<>> /\ history.yielded = <<>> /\ history.drained = <<>>
    /\ call.op \in {"Composer.new", "Composer.consume"} =>
           history.drained \o elements = history.yielded
    /\ call.op = "Composer.consume" =>
           /\ Removed \in 0..Len(history.drained)
           /\ SubSeq(history.drained, 1, Len(history.drained) - Removed)
                  \o call.buffered = history.yielded

\* C17 witness: compose has removed an invalid element and a composite, and two
\* goods yielded after them are in the buffer.
C17_Witness ==
    /\ call.op = "Composer.consume"
    /\ history.drained = <<9, 0, 1, 2>>
    /\ elements = <<0, 1>>
    /\ history.yielded = <<9, 0, 1, 2, 0, 1>>

\* The buffer without its invalid prefix, as far as the first element that
\* cannot continue a composite.
RECURSIVE AfterInvalid(_, _)
AfterInvalid(buffer, i) ==
    IF i > Len(buffer) \/ i > 3 THEN buffer
    ELSE IF buffer[i] # Valid[i] THEN SubSeq(buffer, i + 1, Len(buffer))
    ELSE AfterInvalid(buffer, i + 1)

\* C18: a consume that returns a Misstep leaves the buffer without the invalid
\* prefix and with every element behind it; the consume that follows it and
\* finds 0, 1, 2 at the front returns the composite.
C18_MisstepDropsPrefix ==
    [][call'.op = "Composer.consume" =>
          /\ call'.poll = "Misstep" =>
                 /\ Len(elements') < Len(elements \o Front(source))
                 /\ elements' = AfterInvalid(elements \o Front(source), 1)
          /\ (/\ call.op = "Composer.consume"
              /\ call.poll = "Misstep"
              /\ StartsValid(elements \o Front(source))) =>
                 /\ call'.result = TheComposite
                 /\ call'.poll = "Ready"]_vars

\* C18 witness: 9 was removed as a misstep, and a later consume returned the
\* composite of the 0, 1, 2 behind it without pulling anything.
C18_Witness ==
    /\ call.op = "Composer.consume"
    /\ call.result = TheComposite
    /\ history.yielded = <<9, 0, 1, 2>>
    /\ history.drained = <<9, 0, 1, 2>>
    /\ call.buffered = Valid
    /\ call.pulls = 1

\* C19: a consume that finds a composite at the front of the buffer and the
\* goods just pulled returns that one composite and keeps all that follows
\* it, so the composites behind it are returned by the next calls, one each,
\* with nothing new from the inner consumer; with the buffer empty and
\* nothing new, consume returns the inner consumer's Insufficiency.
C19_OnePerCall ==
    [][call'.op = "Composer.consume" =>
          /\ StartsValid(elements \o Front(source)) =>
                 /\ call'.result = TheComposite
                 /\ elements' = SubSeq(elements \o Front(source), 4,
                                       Len(elements) + RunLen(source))
          /\ (/\ elements = <<>>
              /\ Front(source) = <<>>
              /\ Terminal(source).class = "Insufficiency") =>
                 call'.result = Passed(Terminal(source))]_vars

\* C19 witness: six goods making two composites were pulled by one consume,
\* and the latest consume returned the second composite from the buffer
\* without pulling anything.
C19_Witness ==
    /\ call.op = "Composer.consume"
    /\ call.result = TheComposite
    /\ history.yielded = Valid \o Valid
    /\ history.drained = Valid \o Valid
    /\ call.buffered = Valid
    /\ call.pulls = 1
    /\ source = <<>>

\* C20: a consume call makes a bounded number of calls of the inner consumer
\* and returns: while Composer.consume is running, the goods the inner
\* consumer has yielded in this call stay below the number followed here.
C20_ConsumeReturns ==
    call.op = "Composer.consume.loop" => call.pulls < MaxPulls

----------------------------------------------------------------------------
(* More properties of the Collector and the Distributor *)

\* The identities of the sub-consumers, in scan order.
Ids(list) == [i \in DOMAIN list |-> list[i].id]

\* C21: push puts the consumer behind every consumer pushed before and leaves
\* those as they were; in every consume a sub-consumer is invoked at its place
\* in push order, and only when every sub-consumer before it has failed with
\* an Insufficiency in that call.
C21_PushAppends ==
    [][/\ call'.op = "Collector.push" =>
              /\ Len(consumers') = Len(consumers) + 1
              /\ SubSeq(consumers', 1, Len(consumers)) = consumers
              /\ consumers'[Len(consumers')].id = call'.id
              /\ \A i \in DOMAIN consumers : consumers[i].id # call'.id
       /\ call'.op = "Collector.consume" =>
              /\ Ids(consumers') = Ids(consumers)
              /\ Len(call'.invoked) <= Len(consumers)
              /\ \A i \in DOMAIN call'.invoked :
                     /\ call'.invoked[i].consumer = consumers[i].id
                     /\ \A j \in 1..(i - 1) :
                            /\ ~call'.invoked[j].inner.ok
                            /\ call'.invoked[j].inner.fault.class = "Insufficiency"
      ]_vars

\* C21 witness: the consumer pushed last, third in order, was invoked after
\* the two pushed before it had failed with an Insufficiency, and gave its
\* good.
C21_Witness ==
    /\ call.op = "Collector.consume"
    /\ Ids(consumers) = <<1, 2, 3>>
    /\ Len(call.invoked) = 3
    /\ call.invoked[3].consumer = 3
    /\ call.invoked[3].inner.ok
    /\ call.result.ok

\* C23: Distributor.produce leaves the map of producers as it was and
\* Collector.consume leaves the list of sub-consumers and its order as they
\* were, on success and on failure; the map changes only in an insert and the
\* list only in a push.
C23_CollectionsFixed ==
    [][/\ call'.op = "Distributor.produce" => producers' = producers
       /\ call'.op = "Collector.consume" => Ids(consumers') = Ids(consumers)
       /\ producers' # producers => call'.op = "Distributor.insert"
       /\ Ids(consumers') # Ids(consumers) => call'.op = "Collector.push"
      ]_vars

\* C23 witness: a Collector with two sub-consumers returned the Defect of the
\* first, and both are on the list as before.
C23_Witness ==
    /\ call.op = "Collector.consume"
    /\ ~call.result.ok
    /\ call.result.fault.class = "Defect"
    /\ Len(call.invoked) = 1
    /\ call.invoked[1].consumer = 1
    /\ Ids(consumers) = <<1, 2>>

\* The goods the sub-consumers of a list hold.
RECURSIVE Held(_)
Held(list) ==
    IF list = <<>> THEN 0
    ELSE Cardinality({i \in DOMAIN list[1].queue : list[1].queue[i].ok})
             + Held(Tail(list))

\* C25: one Collector.consume takes at most one good from all its
\* sub-consumers together, and takes one exactly when it returns a good, which
\* is the good taken.
C25_AtMostOneGood ==
    [][call'.op = "Collector.consume" =>
          /\ Len(consumers') = Len(consumers)
          /\ Held(consumers) - Held(consumers') =
                 IF call'.result.ok THEN 1 ELSE 0
          /\ call'.result.ok =>
                 \E i \in DOMAIN consumers :
                     /\ consumers[i].queue # <<>>
                     /\ consumers[i].queue[1].ok
                     /\ consumers'[i].queue = Tail(consumers[i].queue)
                     /\ call'.result.good = Generic(consumers[i].queue[1].good)
                     /\ \A j \in DOMAIN consumers \ {i} :
                            Held(<<consumers'[j]>>) = Held(<<consumers[j]>>)
      ]_vars

\* C25 witness: the first of three sub-consumers gave its good, and the two
\* behind it hold theirs.
C25_Witness ==
    /\ call.op = "Collector.consume"
    /\ call.result.ok
    /\ Len(call.invoked) = 1
    /\ Len(consumers) = 3
    /\ Held(consumers) = 2
    /\ consumers[1].queue = <<>>

\* C26: Distributor.produce returns Defect(MissingKey) exactly when no
\* producer is registered under the good's key; with a producer registered, a
\* failure is an Insufficiency or a Specification defect, Unspecifiable or
\* Improducible.
C26_MissingKeyIff ==
    call.op = "Distributor.produce" =>
        LET missing == /\ ~call.result.ok
                       /\ call.result.fault =
                              [class |-> "Defect", payload |-> <<"MissingKey">>]
        IN  /\ missing <=> producers[call.good.key] = <<>>
            /\ (~call.result.ok /\ ~missing) =>
                   \/ call.result.fault.class = "Insufficiency"
                   \/ /\ call.result.fault.class = "Defect"
                      /\ Len(call.result.fault.payload) >= 2
                      /\ call.result.fault.payload[1] = "Specification"
                      /\ call.result.fault.payload[2]
                             \in {"Unspecifiable", "Improducible"}

\* C26 witness: the producer registered under the good's key could not take
\* the good's form, and the Distributor reported Specification(Unspecifiable).
C26_Witness ==
    /\ call.op = "Distributor.produce"
    /\ producers[call.good.key] # <<>>
    /\ producers[call.good.key][1].kind.tag # call.good.tag
    /\ ~call.result.ok
    /\ call.result.fault.payload = <<"Specification", "Unspecifiable">>

----------------------------------------------------------------------------
(* More properties of the Composer *)

\* The Defects the inner consumer has yet to report.
DefectsLeft(queue) ==
    Cardinality({i \in DOMAIN queue : ~queue[i].ok /\ queue[i].fault.class = "Defect"})

\* A result that is the Composer's Defect wrapping one of the inner consumer.
IsConsumeDefect(result) ==
    /\ ~result.ok
    /\ result.fault.class = "Defect"
    /\ result.fault.payload[1] = "Consume"

\* C27: every Defect the inner consumer reports is used up by the consume it
\* was reported in, returned or dropped; a consume returns a Defect of the
\* inner consumer only if the inner consumer reported it in that very call, so
\* the consume after a call that ended Ready on a Defect returns none when the
\* inner consumer then fails with an Insufficiency.
C27_DefectDropped ==
    [][call'.op = "Composer.consume" =>
          /\ DefectsLeft(source) - DefectsLeft(source') =
                 IF is_defect(call'.failure) THEN 1 ELSE 0
          /\ IsConsumeDefect(call'.result) =>
                 /\ is_defect(call'.failure)
                 /\ Terminal(source).class = "Defect"
          /\ (/\ call.op = "Composer.consume"
              /\ call.poll = "Ready"
              /\ is_defect(call.failure)
              /\ Terminal(source).class = "Insufficiency") =>
                 ~IsConsumeDefect(call'.result)]_vars

\* C27 witness: a consume pulled 0, 1, 2 and a Defect and returned the
\* composite; the buffer and the inner consumer are empty, so what follows is
\* an Insufficiency.
C27_Witness ==
    /\ call.op = "Composer.consume"
    /\ call.poll = "Ready"
    /\ is_defect(call.failure)
    /\ call.pulls = 4
    /\ history.yielded = Valid
    /\ elements = <<>>
    /\ source = <<>>

\* C22: while a consume is between its first pull and the return of compose,
\* it alone holds the buffer: a consume entered meanwhile on the same Composer
\* is stopped before it reads or changes the buffer, and the buffer changes
\* only in the steps of the call that holds it.
C22_OneCallInside ==
    [][/\ call'.op = "Composer.consume.loop" => call'.holders = 1
       /\ call'.op = "Composer.consume.panic" =>
              /\ call.op = "Composer.consume.loop"
              /\ elements' = elements
       /\ elements' # elements =>
              /\ call.op = "Composer.consume.loop"
              /\ call.holders = 1
              /\ call'.op \in {"Composer.consume.loop", "Composer.consume"}
      ]_vars

\* C22 witness: a consume was entered while another had pulled 0 and 1 into
\* the buffer; it was stopped by the borrow and the buffer holds 0 and 1.
C22_Witness ==
    /\ call.op = "Composer.consume.panic"
    /\ call.pulls = 2
    /\ elements = <<0, 1>>

\* C24: in a consume every good the inner consumer yields is appended to the
\* end of the buffer, one per call of the inner consumer, and compose is not
\* invoked while the inner consumer yields; at the inner consumer's first
\* failure compose is invoked once, on the buffer as it stands then, and the
\* call returns.
C24_PullThenCompose ==
    [][/\ (call.op = "Composer.consume.loop" /\ call'.op = "Composer.consume.loop") =>
              /\ Len(elements') = Len(elements) + 1
              /\ SubSeq(elements', 1, Len(elements)) = elements
              /\ call'.pulls = call.pulls + 1
              /\ call'.composed = 0
       /\ call'.op = "Composer.consume" =>
              /\ call.op = "Composer.consume.loop"
              /\ ~call'.failure.ok
              /\ call'.pulls = call.pulls + 1
              /\ call'.buffered = elements
              /\ call.composed = 0
              /\ call'.composed = 1
      ]_vars

\* C24 witness: the inner consumer yielded 0, 1, 2 and failed at the fourth
\* call; compose was invoked once, on 0, 1, 2, and the composite returned.
C24_Witness ==
    /\ call.op = "Composer.consume"
    /\ call.pulls = 4
    /\ call.buffered = <<0, 1, 2>>
    /\ call.composed = 1
    /\ call.result.ok
    /\ elements = <<>>

----------------------------------------------------------------------------
(* Properties of the queues and channels.  Every produce and consume takes  *)
(* effect at one instant, as the libraries' queues and channels guarantee   *)
(* for calls from any threads, so a behaviour is an interleaving of the     *)
(* calls of all threads.                                                    *)

FullStockRecall(good) ==
    [ok |-> FALSE, agent |-> [role |-> "Stock", id |-> 0],
     fault |-> [class |-> "Insufficiency", payload |-> <<"FullStock">>],
     good |-> good]

WithdrawnDemandRecall(good) ==
    [ok |-> FALSE, agent |-> [role |-> "Stock", id |-> 0],
     fault |-> [class |-> "Defect", payload |-> <<"WithdrawnDemand">>],
     good |-> good]

\* A produce was called on a finite queue or channel holding as many goods as
\* its size.
ProducedOnFull ==
    /\ call.op = "produce"
    /\ call.before.finite
    /\ Len(call.before.held) = call.before.size

\* C28 as stated: a finite queue or channel never holds more goods than its
\* size, and every produce called while it holds that many fails with
\* Insufficiency(FullStock), hands the good back and leaves the held goods as
\* they were.
C28_FullStock ==
    /\ (agent = "Stock" /\ stock.finite) => Len(stock.held) <= stock.size
    /\ ProducedOnFull =>
           /\ call.result = FullStockRecall(call.good)
           /\ stock.held = call.before.held

\* C28, amended: a finite queue or channel never holds more goods than its
\* size; a produce called while it holds that many hands the good back and
\* leaves the held goods as they were, failing with Insufficiency(FullStock)
\* when it is a queue or a channel whose receiver exists, and with
\* Defect(WithdrawnDemand) when it is a channel whose receiver is gone.
C28_FullStockWhileDemand ==
    /\ (agent = "Stock" /\ stock.finite) => Len(stock.held) <= stock.size
    /\ ProducedOnFull =>
           /\ stock.held = call.before.held
           /\ call.result = IF call.before.receiver
                            THEN FullStockRecall(call.good)
                            ELSE WithdrawnDemandRecall(call.good)

\* C28 witness: a channel of size 2 whose receiver exists held goods 1 and 2
\* when good 3 was produced, and good 3 came back with FullStock.
C28_Witness ==
    /\ call.op = "produce"
    /\ IsChannel(call.before)
    /\ call.before.finite
    /\ call.before.size = 2
    /\ call.before.receiver
    /\ call.before.held = <<1, 2>>
    /\ call.good = 3
    /\ call.result = FullStockRecall(3)
    /\ stock.held = <<1, 2>>

EmptyStockFailure ==
    [ok |-> FALSE, agent |-> [role |-> "Stock", id |-> 0],
     fault |-> [class |-> "Insufficiency", payload |-> <<"EmptyStock">>]]

\* The goods of a sequence are all different.
Distinct(goods) ==
    \A i, j \in DOMAIN goods : i # j => goods[i] # goods[j]

\* C29: in every interleaving of produce and consume calls, the goods
\* delivered are, in order, the first of the goods accepted, none of them
\* twice, and as long as the consumer exists the goods accepted and not yet
\* delivered are the goods held, in order; a consume returns the oldest good
\* held, and fails with Insufficiency(EmptyStock) only when none is held.
C29_ExactlyOnceInOrder ==
    agent = "Stock" =>
        /\ Len(stock.delivered) <= Len(stock.accepted)
        /\ stock.delivered = SubSeq(stock.accepted, 1, Len(stock.delivered))
        /\ Distinct(stock.accepted)
        /\ Distinct(stock.delivered)
        /\ stock.receiver => stock.delivered \o stock.held = stock.accepted
        /\ call.op = "produce" =>
               call.result.ok <=> stock.accepted = Append(call.before.accepted, call.good)
        /\ call.op = "consume" =>
               /\ call.before.held # <<>> =>
                      /\ call.result = [ok |-> TRUE, good |-> call.before.held[1]]
                      /\ stock.held = Tail(call.before.held)
               /\ call.result = EmptyStockFailure => call.before.held = <<>>

\* C29 witness: goods 1, 2 and 3 were accepted with a consume between the
\* produces; the latest consume returned good 2, and good 3 is held.
C29_Witness ==
    /\ call.op = "consume"
    /\ call.before.held = <<2, 3>>
    /\ call.result = [ok |-> TRUE, good |-> 2]
    /\ stock.accepted = <<1, 2, 3>>
    /\ stock.delivered = <<1, 2>>
    /\ stock.held = <<3>>

WithdrawnSupplyFailure ==
    [ok |-> FALSE, agent |-> [role |-> "Stock", id |-> 0],
     fault |-> [class |-> "Defect", payload |-> <<"WithdrawnSupply">>]]

\* C30: on a channel, a produce after the receiver is gone fails with
\* Defect(WithdrawnDemand) and hands the good back; a consume returns
\* Defect(WithdrawnSupply) exactly when the sender is gone and no good is
\* held, so the goods accepted before the sender went are delivered first;
\* while the sender exists, a consume with no good held returns
\* Insufficiency(EmptyStock).
C30_Withdrawn ==
    (agent = "Stock" /\ IsChannel(stock)) =>
        /\ (call.op = "produce" /\ ~call.before.receiver) =>
               /\ call.result = WithdrawnDemandRecall(call.good)
               /\ stock.accepted = call.before.accepted
        /\ call.op = "consume" =>
               /\ call.result = WithdrawnSupplyFailure <=>
                      (~call.before.sender /\ call.before.held = <<>>)
               /\ (~call.before.sender /\ call.before.held # <<>>) =>
                      call.result = [ok |-> TRUE, good |-> call.before.held[1]]
               /\ (call.before.sender /\ call.before.held = <<>>) =>
                      call.result = EmptyStockFailure

\* C30 witness: the sender was dropped with goods 1 and 2 in the channel;
\* both were delivered, and the consume after them returned WithdrawnSupply.
C30_Witness ==
    /\ IsChannel(stock)
    /\ call.op = "consume"
    /\ ~stock.sender
    /\ stock.accepted = <<1, 2>>
    /\ stock.delivered = <<1, 2>>
    /\ call.before.held = <<>>
    /\ call.result = WithdrawnSupplyFailure

----------------------------------------------------------------------------
(* Readers and writers of bytes                                             *)

\* The answer of the one read or write of the last call: the next answer of
\* the underlying reader or writer as it was before the call, Ok(0) when it
\* had none left.
Answered ==
    IF call.before.answers = <<>> THEN [kind |-> "Ok", n |-> 0]
    ELSE call.before.answers[1]

\* C31: Reader.consume performs one read of at most one byte per call: it
\* returns that byte if one was read, fails with Insufficiency(EmptyStock) if
\* the read returned 0 bytes (also at the end of the stream) and with
\* Defect(ReadDefect) if the read returned an error; the bytes that have left
\* the underlying reader are always exactly the bytes returned, in order.
C31_ReaderConsume ==
    (agent = "Reader" /\ call.op = "Reader.consume") =>
        /\ Len(call.before.answers) - Len(io.answers) =
               (IF call.before.answers = <<>> THEN 0 ELSE 1)
        /\ Len(io.taken) - Len(call.before.taken) \in {0, 1}
        /\ (Answered.kind = "Ok" /\ Answered.n = 1) =>
               /\ call.result = [ok |-> TRUE, good |-> Answered.byte]
               /\ io.taken = Append(call.before.taken, Answered.byte)
        /\ (Answered.kind = "Ok" /\ Answered.n = 0) =>
               /\ call.result =
                      [ok |-> FALSE, agent |-> [role |-> "Reader", id |-> 0],
                       fault |-> [class |-> "Insufficiency",
                                  payload |-> <<"EmptyStock">>]]
               /\ io.taken = call.before.taken
        /\ Answered.kind = "Err" =>
               /\ call.result =
                      [ok |-> FALSE, agent |-> [role |-> "Reader", id |-> 0],
                       fault |-> [class |-> "Defect",
                                  payload |-> <<"ReadDefect">>]]
               /\ io.taken = call.before.taken
        /\ io.returned = io.taken

\* C31 witness: the underlying reader gave the byte 0, then an error, then the
\* byte 2; the third consume returned 2 and both bytes have been returned.
C31_Witness ==
    /\ agent = "Reader"
    /\ call.op = "Reader.consume"
    /\ call.before.answers = <<[kind |-> "Ok", n |-> 1, byte |-> 2]>>
    /\ call.result = [ok |-> TRUE, good |-> 2]
    /\ io.taken = <<0, 2>>
    /\ io.returned = <<0, 2>>

\* C32: Writer.produce(byte) performs one write of that byte per call: it
\* succeeds exactly when the write reports one byte written, and the byte is
\* then the last one of the underlying writer; it fails with
\* Insufficiency(FullStock) if 0 bytes were written and with
\* Defect(WriteDefect) if the write returned an error, and in both failures
\* the Recall carries the byte passed in and the underlying writer holds what
\* it held.
C32_WriterProduce ==
    (agent = "Writer" /\ call.op = "Writer.produce") =>
        /\ Len(call.before.answers) - Len(io.answers) =
               (IF call.before.answers = <<>> THEN 0 ELSE 1)
        /\ call.result.ok <=> (Answered.kind = "Ok" /\ Answered.n = 1)
        /\ call.result.ok =>
               /\ call.result = [ok |-> TRUE]
               /\ io.written = Append(call.before.written, call.good)
        /\ (Answered.kind = "Ok" /\ Answered.n = 0) =>
               /\ call.result =
                      [ok |-> FALSE, agent |-> [role |-> "Writer", id |-> 0],
                       fault |-> [class |-> "Insufficiency",
                                  payload |-> <<"FullStock">>],
                       good |-> call.good]
               /\ io.written = call.before.written
        /\ Answered.kind = "Err" =>
               /\ call.result =
                      [ok |-> FALSE, agent |-> [role |-> "Writer", id |-> 0],
                       fault |-> [class |-> "Defect",
                                  payload |-> <<"WriteDefect">>],
                       good |-> call.good]
               /\ io.written = call.before.written
        /\ io.accepted = io.written

\* C32 witness: the byte 1 was written, the write of the byte 2 then reported
\* 0 bytes written, and produce handed the byte 2 back with FullStock.
C32_Witness ==
    /\ agent = "Writer"
    /\ call.op = "Writer.produce"
    /\ call.good = 2
    /\ call.before.answers # <<>>
    /\ ~call.result.ok
    /\ call.result.fault = [class |-> "Insufficiency", payload |-> <<"FullStock">>]
    /\ call.result.good = 2
    /\ io.written = <<1>>

----------------------------------------------------------------------------
(* Processes                                                                *)

\* The consumers called by the last consume of the ProductConsumer, in the
\* order of the calls, and what the last of them returned.
Stages == [i \in DOMAIN call.stages |-> call.stages[i].stage]
LastStage == call.stages[Len(call.stages)]

FailedWith(result, class) == ~result.ok /\ result.fault.class = class

\* C33: ProductConsumer.consume calls the stdout composer first, the stderr
\* composer only if stdout failed with Insufficiency, and the exit-status
\* consumer only if stderr also failed with Insufficiency, and a consumer it
\* does not call is left as it was; it returns the first success as Output,
\* Error or Exit respectively; a Defect of a consumer ends the call and is
\* returned tagged with that consumer (Output, Error, Exit); an Exit product
\* is returned only in a call in which both composers reported Insufficiency.
C33_ProductConsumerConsume ==
    (agent = "Process" /\ call.op = "ProductConsumer.consume") =>
        /\ Stages \in {<<"Output">>, <<"Output", "Error">>,
                       <<"Output", "Error", "Exit">>}
        /\ call.stages[1].result =
               PipeComposerConsume(call.before.output_composer).result
        /\ process.output_composer =
               PipeComposerConsume(call.before.output_composer).composer
        /\ Len(call.stages) >= 2 <=>
               FailedWith(call.stages[1].result, "Insufficiency")
        /\ Len(call.stages) >= 2 =>
               /\ call.stages[2].result =
                      PipeComposerConsume(call.before.error_composer).result
               /\ process.error_composer =
                      PipeComposerConsume(call.before.error_composer).composer
        /\ Len(call.stages) < 2 =>
               process.error_composer = call.before.error_composer
        /\ Len(call.stages) = 3 <=>
               /\ Len(call.stages) >= 2
               /\ FailedWith(call.stages[2].result, "Insufficiency")
        /\ Len(call.stages) = 3 =>
               call.stages[3].result = ExiterConsume(call.before.child, call.fails)
        /\ process.child = call.before.child
        /\ LastStage.result.ok =>
               call.result = [ok |-> TRUE,
                              good |-> [variant |-> LastStage.stage,
                                        value |-> LastStage.result.good]]
        /\ FailedWith(LastStage.result, "Defect") =>
               call.result =
                   [ok |-> FALSE, agent |-> LastStage.result.agent,
                    fault |-> [class |-> "Defect",
                               payload |-> <<LastStage.stage>> \o
                                           LastStage.result.fault.payload]]
        /\ FailedWith(LastStage.result, "Insufficiency") =>
               /\ LastStage.stage = "Exit"
               /\ call.result =
                      [ok |-> FALSE, agent |-> [role |-> "Exiter", id |-> 0],
                       fault |-> [class |-> "Insufficiency",
                                  payload |-> <<"EmptyStock">>]]
        /\ (call.result.ok /\ call.result.good.variant = "Exit") =>
               /\ Len(call.stages) = 3
               /\ FailedWith(call.stages[1].result, "Insufficiency")
               /\ FailedWith(call.stages[2].result, "Insufficiency")
               /\ call.before.child.state = "exited"
               /\ call.result.good.value = call.before.child.status

\* C33 witness: the child has exited with status 1; stdout gave the bytes 0
\* and 1, which its composer keeps, and stderr gave nothing; both composers
\* reported Insufficiency and the call returned Exit(1).
C33_Witness ==
    /\ agent = "Process"
    /\ call.op = "ProductConsumer.consume"
    /\ Len(call.stages) = 3
    /\ call.before.output_composer.reader.answers # <<>>
    /\ process.output_composer.elements = <<0, 1>>
    /\ process.error_composer.elements = <<>>
    /\ call.result = [ok |-> TRUE, good |-> [variant |-> "Exit", value |-> 1]]

====
